---- MODULE Spec2Model ----
(***************************************************************************)
(* The chunk-streamed town of src/unnamed/part_001: the road grid oracle   *)
(* (getRoadAt), the chunk generator (generateChunk), the chunk cache       *)
(* (getChunk / updateChunks), the per-frame callbacks (GameLoop, Vehicle)  *)
(* and the player mode (usePlayerMode).                                    *)
(*                                                                         *)
(* Numbers.  The program computes in IEEE-754 doubles; the model computes  *)
(* in integers.  A length or coordinate is held in thousandths of a world  *)
(* unit (PosScale), a return value of the seeded generator in millionths   *)
(* (RandScale), an angle in 10^-5 rad.  Math.sin is the interpolated table *)
(* SinTab.  The seeded stream s -> Math.sin(s) * 10000 amplifies every     *)
(* rounding error by 10^4 per draw, so no integer recurrence reproduces    *)
(* it; seededRand is therefore the table RandTable of the values the       *)
(* closure returns in double arithmetic, floor(r * RandScale), for the     *)
(* seeds of the chunk keys -4..3 x -4..3 and of four keys farther out.     *)
(*                                                                         *)
(* Spec is the running App.  ProbeSpec calls the generator and the AI tick *)
(* on their own, for every key of the table.                               *)
(*                                                                         *)
(* View-only state (rot, the camera, mesh refs, the NPC speech bubbles)    *)
(* is not part of the model.                                               *)
(***************************************************************************)
EXTENDS Integers, Sequences, FiniteSets, TLC

\* ================= STATE =================
VARIABLES
  pos,            \* App: the player's position [x, y, z]
  input,          \* App: the joystick sample {x, y}
  running,        \* App: the run button is held
  mode,           \* usePlayerMode: "walk" | "drive"
  activeVehicle,  \* usePlayerMode: the entered vehicle (chunk key, index) or NoVehicle
  chunks,         \* chunksRef.current: chunk key -> chunk content
  near,           \* the mounted Vehicle components whose near state is true
  frames,         \* history: the number of frames rendered so far
  driveFrames,    \* history: the number of them rendered in drive mode
  upd,            \* history: the most recent updateChunks call: fresh (the cache
                  \*   is as the call left it), the number of calls so far (up
                  \*   to 2), the chunk key of the position it read, the keys
                  \*   resident before it, the key the call before it was
                  \*   centred on
  stale,          \* history: the keys evicted with a vehicle record that differed
                  \*   from the generated one
  probe           \* a function called on its own.  Under ProbeSpec the
                  \*   generator: a key, the number of calls made for it, the
                  \*   content each returned, the first content with its
                  \*   vehicles ticking, the number of ticks.  Under RoadSpec
                  \*   the road oracle: a point, the steps taken on it, the
                  \*   spacing tests and the classification of the point, the
                  \*   tests of its x one spacing apart

vars == <<pos, input, running, mode, activeVehicle, chunks, near, frames,
          driveFrames, upd, stale, probe>>

PosScale == 10 * 10 * 10
RandScale == PosScale * PosScale

\* ================= CONFIG =================
PLAYER_SPEED == 120
RUN_MULTIPLIER == 2
DRIVE_SPEED == 180
DRIVE_TURN == "0.045"
ENTER_RADIUS == 2400
CHUNK_SIZE == 20
VIEW_RADIUS == 2
WORLD_LIMIT == 8

NPC_TYPES == <<"dreamer", "cynic", "worker", "wanderer", "optimist">>

\* ================= BOUNDS =================
\* the player stays within MaxSteps walking steps of the origin on each axis
MaxSteps == 2
\* number of rendered frames explored
MaxFrames == 3
\* number of them rendered in drive mode
MaxDriveFrames == 1
\* number of AI ticks simulated on a generated chunk
MaxTicks == 12
\* the road oracle is asked about the points of a square grid around the
\* origin: GridStep thousandths of a unit apart, MaxCells of them each way
GridStep == 700
MaxCells == 100
\* long stays in a vehicle: frames rendered in walk mode before them, and
\* frames rendered in drive mode
MaxWalkFrames == 2
MaxLongDrive == 175
\* the Exit button is explored during the first frames in drive mode
MaxExitFrames == 2

\* ================= UTILS =================
Abs(n) == IF n < 0 THEN -n ELSE n

\* the % of the source language: the remainder has the sign of the dividend
JsRem(a, b) == IF a >= 0 THEN a % b ELSE -((-a) % b)

\* Math.round(a / b) for b > 0: the nearest integer, halves rounded up
MathRound(a, b) == (2 * a + b) \div (2 * b)

hash(x, z) == <<x, z>>

\* Math.sin on [0, pi/2], sampled every 0.02 rad, in units of 10^-5
SinTab ==
  <<0, 2000, 3999, 5996, 7991, 9983, 11971, 13954, 15932, 17903,
    19867, 21823, 23770, 25708, 27636, 29552, 31457, 33349, 35227, 37092,
    38942, 40776, 42594, 44395, 46178, 47943, 49688, 51414, 53119, 54802,
    56464, 58104, 59720, 61312, 62879, 64422, 65938, 67429, 68892, 70328,
    71736, 73115, 74464, 75784, 77074, 78333, 79560, 80756, 81919, 83050,
    84147, 85211, 86240, 87236, 88196, 89121, 90010, 90863, 91680, 92461,
    93204, 93910, 94578, 95209, 95802, 96356, 96872, 97348, 97786, 98185,
    98545, 98865, 99146, 99387, 99588, 99749, 99871, 99953, 99994, 99996>>

TwoPi == 628319
Pi == 314159
HalfPi == 157080
SinStep == 2000

SinQ(m) ==
  LET i == m \div SinStep
      f == m % SinStep
  IN SinTab[i + 1] + ((SinTab[i + 2] - SinTab[i + 1]) * f) \div SinStep

SinHalf(m) == IF m > HalfPi THEN SinQ(Pi - m) ELSE SinQ(m)

\* Math.sin(a), a in 10^-5 rad, result in units of 10^-5
MathSin(a) ==
  LET m == a % TwoPi
  IN IF m >= Pi THEN -SinHalf(m - Pi) ELSE SinHalf(m)

MathCos(a) == MathSin(a + HalfPi)

\* ================= GLOBAL ROAD GRID =================
MAIN_AVENUE_SPACING == 60000
STREET_SPACING == 20000
ROAD_WIDTH_MAIN == 3200
ROAD_WIDTH_STREET == 2000

\* Math.sin(x * 0.03) * 1.2 + Math.cos(z * 0.04) * 1.0
roadWarp(x, z) == (MathSin(3 * x) * 12 + MathCos(4 * z) * 10) \div 1000

onMain(w) == Abs(JsRem(w, MAIN_AVENUE_SPACING)) < ROAD_WIDTH_MAIN
onStreet(w) == Abs(JsRem(w, STREET_SPACING)) < ROAD_WIDTH_STREET

\* the four spacing tests of getRoadAt on the warped coordinates of a point
RoadTests(x, z) ==
  [mainX |-> onMain(x + roadWarp(x, z)), mainZ |-> onMain(z + roadWarp(z, x)),
   streetX |-> onStreet(x + roadWarp(x, z)), streetZ |-> onStreet(z + roadWarp(z, x))]

\* a classification that lets the street tests decide before the main ones
getRoadAtStreetFirst(x, z) ==
  LET t == RoadTests(x, z)
      isStreet == t.streetX \/ t.streetZ
      isMain == ~isStreet /\ (t.mainX \/ t.mainZ)
  IN [isRoad |-> isMain \/ isStreet,
      type |-> IF isMain THEN "main" ELSE IF isStreet THEN "street" ELSE "null",
      dir |-> IF t.mainX \/ t.streetX THEN "vertical" ELSE "horizontal"]

getRoadAt(x, z) ==
  LET wx == x + roadWarp(x, z)
      wz == z + roadWarp(z, x)
      onMainX == onMain(wx)
      onMainZ == onMain(wz)
      onStreetX == onStreet(wx)
      onStreetZ == onStreet(wz)
      isMain == onMainX \/ onMainZ
      isStreet == ~isMain /\ (onStreetX \/ onStreetZ)
  IN [isRoad |-> isMain \/ isStreet,
      type |-> IF isMain THEN "main" ELSE IF isStreet THEN "street" ELSE "null",
      dir |-> IF onMainX \/ onStreetX THEN "vertical" ELSE "horizontal"]

\* ================= SEEDED STREAM =================
\* the successive returns of the closure seededRand(seed), floor(r * RandScale)
RandTable ==
  \* key (-8, -5): 68 calls by generateChunk
  (-230111 :> <<
     39847, 558995, 964868, 173022, 475608, 648589, 918087, 254138, 519917, 223413,
     628153, 40839, 663287, 13212, 264911, 13346, 952334, 416443, 161957, 70292,
     928551, 239880, 274676, 765886, 704630, 732354, 66891, 371286, 362762, 910745,
     378421, 125639, 402509, 651094, 764680, 265315, 389262, 555527, 645549, 876243,
     390755, 92410, 330883, 426904, 244947, 553404, 99862, 147537, 205645, 968115,
     573778, 993382, 392339, 962877, 284615, 803544, 467994, 528827, 676324, 33108,
     392989, 852235, 215868, 45282, 67375, 609618, 378524, 714815, 90572, 554378,
     851117, 741217, 903510, 985398, 147814, 254771, 367916, 931376, 325000, 270646,
     104013, 157920, 132472, 128238>>)
  @@
  \* key (-8, -4): 96 calls by generateChunk
  (-200100 :> <<
     873593, 56180, 281626, 93140, 834016, 526569, 87746, 296447, 630835, 429917,
     537800, 612257, 714456, 460528, 695666, 518866, 96810, 955706, 338393, 326617,
     905013, 905625, 529234, 592886, 111479, 364291, 50919, 926833, 408035, 851683,
     444089, 518738, 199133, 360043, 40675, 89654, 592276, 76697, 963328, 949603,
     193297, 759264, 707560, 92235, 291559, 302616, 388927, 816793, 711026, 143357,
     103554, 927779, 292463, 928255, 254155, 391123, 231526, 38764, 438173, 851472,
     818445, 549346, 552344, 667566, 479992, 658579, 595372, 897210, 485386, 632833,
     145059, 395229, 420289, 129688, 11339, 671939, 7984, 365396, 363803, 739140,
     104642, 338567, 734624, 606174, 934248, 155563, 444440, 715903, 161934, 700118,
     865807, 129878, 713610, 872873, 16417, 97043, 191395, 459783, 692179, 657089,
     241750, 142750, 546396, 42619, 313353, 471463, 758112, 33447, 839428, 36355,
     628322, 137245>>)
  @@
  \* key (-7, -7): 66 calls by generateChunk
  (-280126 :> <<
     15511, 913772, 753488, 338116, 451666, 585233, 931055, 704791, 290349, 292380,
     120150, 53511, 608482, 502647, 774314, 453246, 808889, 598005, 504052, 445736,
     337712, 282166, 805421, 949927, 60517, 385469, 454132, 548580, 394953, 231835,
     760601, 572105, 534525, 721699, 183248, 26152, 936441, 584850, 672113, 667657,
     246443, 687400, 905213, 397780, 321534, 609613, 625169, 375726, 870815, 201046,
     354913, 202033, 479197, 891777, 564239, 925873, 747217, 913471, 479950, 119518,
     839785, 221734, 9782, 807757, 350240, 948897, 59291, 207543, 847907, 2774,
     402735, 622213, 32595, 295819, 657225, 446083, 929967, 342739, 687055, 142885,
     485679, 533119>>)
  @@
  \* key (-6, 0): 125 calls by generateChunk
  (-60042 :> <<
     897377, 823348, 94121, 567318, 555312, 657784, 712202, 635694, 337103, 825420,
     565291, 41775, 855517, 970498, 40103, 304661, 987046, 745072, 194323, 589910,
     258361, 678608, 212749, 525262, 22919, 567510, 891542, 392898, 433785, 262346,
     360062, 54552, 623407, 925733, 508230, 954885, 302450, 703115, 804951, 695291,
     25234, 212993, 22960, 690923, 13219, 338020, 28311, 10163, 914237, 659634,
     68851, 511180, 679570, 507617, 869028, 376179, 632429, 265492, 890382, 82414,
     752408, 751042, 54724, 247811, 954722, 295462, 569764, 738737, 653431, 871550,
     795258, 223049, 353591, 987046, 22631, 591415, 993082, 972147, 34207, 667490,
     347310, 234295, 731048, 248381, 946800, 20641, 375449, 77328, 159437, 948187,
     849605, 164695, 55553, 277951, 396070, 882302, 23205, 374370, 208177, 515167,
     915942, 690028, 785137, 211906, 610569, 34057, 601216, 934351, 944442, 112598,
     1698, 193240, 744548, 419710, 424114, 642459, 921726, 485413, 417576, 944347,
     912786, 346443, 515148, 311689, 671805, 912135, 438358, 586493, 460513, 394755,
     409419, 248619, 140128, 608414, 531131, 535503, 178440, 365819, 472279, 901765,
     668607>>)
  @@
  \* key (-4, -4): 108 calls by generateChunk
  (-160072 :> <<
     718570, 668769, 960182, 967283, 674503, 441688, 802563, 833060, 957571, 541315,
     335262, 878207, 590537, 977008, 579687, 759784, 539513, 143275, 374002, 855423,
     405668, 510365, 668713, 553906, 575863, 123325, 95164, 897541, 453129, 62768,
     496310, 757839, 921381, 83643, 337653, 395641, 362592, 226674, 512412, 197456,
     964932, 844841, 635558, 227097, 415531, 780742, 971226, 245277, 153098, 633021,
     380020, 966324, 572219, 23718, 475131, 549883, 153861, 933797, 203282, 790707,
     446671, 493185, 955475, 478708, 580648, 600458, 261402, 316784, 27270, 622902,
     179321, 315087, 782895, 904623, 623471, 595383, 911366, 576412, 669726, 69167,
     32026, 931517, 868857, 889347, 668899, 54982, 566010, 627142, 10143, 313321,
     669609, 119771, 868284, 798348, 279474, 891375, 480545, 283202, 923978, 916647,
     559396, 182586, 828644, 402361, 492281, 953274, 222464, 312903, 673586, 187411,
     71014, 322297, 394189, 519167, 149524, 724338, 598394, 589882, 687078, 319208,
     33648, 779195, 821335, 760202>>)
  @@
  \* key (-4, -3): 73 calls by generateChunk
  (-130061 :> <<
     217072, 952000, 629203, 863759, 603985, 435376, 577332, 400499, 134936, 37390,
     474952, 40434, 485144, 155408, 953093, 737252, 96725, 273495, 243463, 776275,
     598909, 748089, 445671, 802960, 749547, 627610, 276903, 263253, 65575, 589849,
     339318, 772690, 498947, 244952, 77689, 262089, 208831, 952258, 803380, 596823,
     938973, 967877, 477544, 41575, 913839, 56981, 790762, 747290, 49155, 975439,
     962565, 119416, 299487, 62454, 207133, 733120, 13481, 725187, 394779, 45302,
     656629, 35942, 990575, 424933, 842122, 962541, 360, 968965, 927337, 852897,
     560480, 74948, 796598, 175579, 970840, 723660, 844782, 481424, 884184, 405941,
     465657, 492520, 992955, 407118, 777629, 574741, 277828, 469711, 680463>>)
  @@
  \* key (-4, -2): 116 calls by generateChunk
  (-100050 :> <<
     642946, 490146, 414152, 947111, 172897, 233190, 643193, 465236, 589941, 113997,
     166683, 345000, 250195, 393574, 13410, 188924, 336689, 778554, 801025, 1706,
     291944, 238721, 754295, 514602, 651789, 968362, 5824, 631935, 140085, 881852,
     50556, 840322, 834593, 906609, 919246, 460672, 359865, 104616, 512709, 92896,
     440244, 783886, 552596, 239908, 513941, 378030, 871931, 35802, 77554, 997442,
     264037, 914233, 516585, 547339, 277561, 937766, 533244, 658082, 720898, 828471,
     95042, 469317, 498750, 191020, 734209, 388341, 916137, 145068, 266552, 491820,
     547263, 122632, 323901, 812212, 709556, 127668, 499709, 37792, 897685, 125572,
     782117, 114611, 919651, 937437, 31608, 251632, 34431, 921861, 508183, 963669,
     240443, 485206, 169385, 390946, 570835, 11785, 665912, 275294, 512278, 786581,
     732253, 871501, 667605, 320127, 748741, 22217, 448989, 547269, 890827, 503078,
     910253, 264359, 597195, 636417, 398670, 777182, 260729, 386628, 161592, 280066,
     208960, 183518, 232125, 258976, 701218, 685378, 801332, 965848, 232836, 126104,
     710658, 388584>>)
  @@
  \* key (-4, -1): 83 calls by generateChunk
  (-70039 :> <<
     353890, 143336, 903407, 386812, 164717, 899587, 484496, 22869, 161588, 544678,
     697737, 121003, 103725, 26245, 916570, 135507, 936216, 997865, 697655, 104320,
     672308, 860011, 239822, 137974, 524889, 678532, 425668, 996197, 191686, 521474,
     957952, 561234, 220892, 195390, 853891, 475800, 884361, 46004, 2660, 256840,
     298817, 632400, 441753, 939284, 254146, 547778, 103530, 651669, 126568, 462277,
     225305, 733081, 127892, 472971, 5642, 372319, 327398, 477583, 502105, 21842,
     660918, 241429, 736746, 531658, 815526, 568716, 762056, 139708, 249898, 861150,
     193702, 459554, 556682, 966735, 257376, 698755, 504564, 614057, 923677, 385224,
     219185, 287669, 803225, 938730, 983443, 811103, 733252, 964043, 765400, 609857,
     185381, 537193, 197475, 709996, 386784, 408496, 223221, 899910, 885961>>)
  @@
  \* key (-4, 0): 83 calls by generateChunk
  (-40028 :> <<
     174434, 284991, 967618, 981180, 799801, 920363, 894183, 912955, 92600, 686270,
     307282, 253400, 106561, 104792, 187041, 816311, 623300, 15534, 13485, 675461,
     728434, 863049, 636742, 374132, 441698, 167337, 215859, 690605, 403367, 813380,
     233111, 58988, 613516, 808160, 384647, 49040, 404167, 102852, 924078, 82025,
     856416, 281599, 109587, 926243, 811284, 417287, 754640, 844847, 494896, 720530,
     795849, 93515, 317230, 524472, 672067, 653562, 565640, 427452, 461790, 921403,
     804536, 804915, 864483, 271283, 984905, 926160, 621266, 782213, 342836, 69993,
     479890, 19547, 703010, 536165, 908502, 752262, 888622, 381736, 152411, 137836,
     908531, 820232, 176961, 448402, 241653, 629256, 51834, 627590, 437666, 417519,
     14054, 479003, 721899, 149212, 403527, 423166, 220722, 365330, 143131>>)
  @@
  \* key (-4, 1): 108 calls by generateChunk
  (-10017 :> <<
     877313, 510865, 773443, 918174, 620660, 55736, 618579, 989497, 47486, 276567,
     889528, 949427, 833634, 563773, 585077, 818932, 239618, 755765, 75299, 782511,
     810840, 706667, 294589, 156645, 802481, 820890, 739450, 632515, 938839, 107562,
     385521, 400782, 771869, 508618, 54669, 123311, 821447, 330465, 587571, 282163,
     284715, 787394, 754193, 194974, 171642, 909875, 838262, 223170, 668818, 965348,
     855073, 511549, 970476, 322318, 873184, 419277, 288597, 106166, 161202, 568863,
     889008, 402519, 770876, 523958, 914810, 695063, 528281, 988705, 417920, 234038,
     591782, 201147, 2664, 669881, 188175, 614839, 409639, 130480, 124133, 68753,
     231989, 67968, 205316, 302161, 398198, 91622, 279282, 891847, 818817, 948244,
     644256, 903096, 318186, 296001, 611372, 989863, 793667, 363950, 949849, 573013,
     343135, 877633, 999740, 186090, 667319, 518625, 893067, 417214, 359660, 71002,
     987236, 807171, 662285, 54070, 439128, 543302, 853017, 431979, 134546, 970520,
     240142, 740, 291617, 941007>>)
  @@
  \* key (-4, 2): 82 calls by generateChunk
  (19994 :> <<
     251934, 467499, 101313, 195982, 608191, 540601, 482710, 659415, 849586, 388179,
     172639, 148964, 488840, 207889, 454790, 246972, 890178, 247706, 846979, 163083,
     789220, 250349, 793288, 141278, 927375, 809328, 791356, 722346, 542360, 652385,
     786017, 839970, 789826, 630560, 477401, 837694, 532368, 607184, 650130, 235548,
     555203, 173815, 6831, 784545, 310537, 542503, 790349, 799718, 775570, 760926,
     884434, 189388, 910941, 349611, 621976, 67562, 934709, 718463, 30039, 199226,
     241508, 975600, 50553, 537299, 60420, 564496, 965761, 85502, 767855, 44888,
     922050, 676595, 287173, 406126, 772, 206131, 979706, 960908, 857388, 749419,
     218619, 42149, 177315, 135720, 233103, 407586, 786394, 531249, 891550, 593221,
     47871, 610946, 822688, 806237, 496788, 604516, 279067, 915836>>)
  @@
  \* key (-4, 3): 76 calls by generateChunk
  (50005 :> <<
     319751, 169773, 455406, 90755, 927603, 748909, 839190, 914211, 755232, 247840,
     123460, 325406, 665960, 131481, 710552, 722057, 329729, 249485, 463150, 573383,
     137951, 848956, 88036, 388921, 641449, 986955, 796059, 885015, 168456, 510893,
     708857, 785544, 529659, 893804, 610752, 694287, 9946, 142588, 258733, 895622,
     292788, 52226, 622742, 177368, 713642, 88910, 903543, 646236, 852067, 611028,
     657319, 485869, 291155, 851314, 212536, 136616, 628252, 102586, 583472, 103168,
     585780, 731973, 268601, 716, 746808, 659734, 890980, 777737, 265600, 849759,
     751950, 76244, 483073, 30521, 210155, 2528, 812934, 814642, 322285, 583586,
     350245, 643131, 31428, 515585, 100209, 497842, 448767, 979225, 537988, 478152,
     245521, 805385>>)
  @@
  \* key (-3, -4): 79 calls by generateChunk
  (-150065 :> <<
     140490, 707894, 353901, 80261, 543882, 923223, 491699, 697160, 501132, 662381,
     338869, 513554, 832898, 472428, 706598, 528464, 616196, 341476, 646922, 85696,
     962164, 306783, 918826, 653443, 94957, 467426, 77138, 769088, 86241, 491316,
     460597, 804737, 280557, 836089, 336740, 493573, 162987, 451463, 927689, 749683,
     947876, 429090, 69002, 824503, 5569, 247547, 961742, 705093, 169516, 852490,
     448335, 120575, 848554, 462217, 436236, 541970, 861499, 277133, 49053, 255238,
     650700, 704235, 448594, 565842, 944922, 367789, 640455, 855892, 284524, 314019,
     241255, 784879, 340891, 546941, 728593, 726796, 334877, 412923, 426010, 972341,
     743615, 127728, 410576, 252991, 600972, 358315, 578770, 148782, 978383, 191670,
     512015, 13277, 453482, 164282, 800306>>)
  @@
  \* key (-3, -3): 102 calls by generateChunk
  (-120054 :> <<
     736050, 791056, 744653, 864473, 113159, 441125, 312097, 623141, 481202, 643414,
     527296, 795634, 695588, 571175, 306679, 494885, 543545, 649645, 1154, 751835,
     210093, 897652, 975020, 206173, 902581, 855816, 446273, 757589, 928590, 753465,
     92151, 619915, 989642, 335989, 178781, 187512, 42617, 376431, 31283, 301354,
     310693, 594036, 25008, 213918, 660512, 783207, 693961, 897338, 721174, 566520,
     372104, 650638, 684732, 793947, 498477, 626075, 72086, 813316, 833617, 667762,
     360412, 691328, 747687, 690451, 671894, 515930, 324137, 357433, 708723, 312981,
     438172, 194703, 462191, 467370, 455338, 320680, 419781, 386589, 998312, 914550,
     455721, 754068, 953815, 21602, 602750, 982810, 955855, 912346, 253455, 832755,
     515710, 727184, 742084, 167160, 582458, 868471, 581729, 622232, 7470, 221311,
     65163, 42195, 238099, 591333, 718318, 890191, 101679, 47668, 63222, 680592,
     403279, 909459, 615824, 99169, 651529, 250141, 422098, 654112>>)
  @@
  \* key (-3, -2): 99 calls by generateChunk
  (-90043 :> <<
     693045, 810915, 140488, 635479, 790889, 402896, 34087, 478341, 939058, 453290,
     999146, 208631, 387189, 245415, 558343, 390283, 222620, 831487, 433849, 218627,
     856878, 212506, 107589, 514770, 712845, 327191, 409800, 874148, 73569, 587239,
     866444, 646324, 365148, 604043, 376859, 388343, 67421, 341054, 993416, 38040,
     775538, 804440, 847006, 495496, 175906, 47172, 657409, 918918, 201935, 780208,
     889245, 105320, 531676, 757028, 686820, 641802, 490275, 114922, 216801, 70069,
     739191, 62305, 841798, 296392, 40586, 173688, 174361, 982822, 646963, 47795,
     391022, 388839, 548049, 257765, 300278, 303454, 808419, 116676, 552900, 238015,
     218648, 671777, 503794, 631090, 922803, 883740, 940928, 532599, 81057, 996196,
     333291, 843423, 632010, 939399, 752909, 551369, 430155, 547310, 884301, 973805,
     363379, 343705, 344256, 931085, 68941, 179930, 857835, 144072, 816382, 123777,
     817232, 523874, 815601, 546923, 217503>>)
  @@
  \* key (-3, -1): 85 calls by generateChunk
  (-60032 :> <<
     328116, 458622, 101215, 826993, 489462, 120366, 618339, 835255, 181864, 198502,
     671625, 530522, 914263, 969304, 697195, 136711, 862025, 274759, 157709, 376694,
     870187, 701471, 463629, 749667, 349723, 335616, 191515, 525215, 41853, 966131,
     136552, 304820, 605340, 10167, 814356, 17775, 108882, 35966, 716536, 134070,
     231798, 399530, 487134, 523007, 676873, 287735, 340797, 56805, 202427, 596663,
     953380, 724128, 20225, 303637, 458431, 840009, 493285, 75635, 439122, 227149,
     185854, 845579, 58795, 758811, 418879, 536849, 14163, 25267, 109826, 853502,
     753428, 135481, 864106, 388425, 463530, 798757, 647338, 564936, 798845, 241101,
     807218, 413623, 983871, 167209, 263758, 341285, 716583, 471632, 703225, 482824,
     426341, 267059, 972008, 544940, 911552, 484288, 55361, 434232, 762269, 845072,
     780415>>)
  @@
  \* key (-3, 0): 113 calls by generateChunk
  (-30021 :> <<
     925244, 883741, 835171, 704616, 193634, 394328, 616357, 151939, 1539, 60718,
     227679, 557719, 806629, 119578, 86260, 187970, 201244, 71539, 276664, 260791,
     718844, 645473, 329923, 500506, 57741, 282257, 884398, 609664, 9650, 878046,
     776165, 651906, 541501, 630743, 426350, 209537, 898587, 1026, 904175, 900386,
     351445, 197560, 444451, 827702, 744242, 242595, 653345, 643764, 506284, 404726,
     828740, 801891, 846697, 608138, 477728, 44630, 754167, 578255, 985635, 168006,
     796821, 515803, 162148, 553812, 193413, 182913, 972756, 744237, 793649, 785377,
     427655, 674515, 960212, 312179, 80185, 100123, 76005, 905196, 884244, 891231,
     691005, 997174, 740365, 886665, 836594, 616916, 450498, 222138, 8022, 166926,
     628704, 248453, 775996, 356086, 861231, 314078, 971904, 182083, 984970, 462404,
     525963, 998081, 294513, 508234, 117119, 620859, 851915, 657824, 565573, 32921,
     425248, 409848, 144450, 862362, 573105, 25729, 761130, 460761, 645298, 109457,
     402277, 843359, 137260, 918748, 662473, 767096, 675320, 374327, 374572>>)
  @@
  \* key (-3, 1): 76 calls by generateChunk
  (-10 :> <<
     304224, 435169, 55887, 160771, 462436, 780955, 563833, 132143, 932013, 895244,
     558814, 364781, 377947, 534754, 976948, 255156, 344010, 790075, 317310, 9978,
     115540, 666767, 656051, 21142, 550093, 750501, 371328, 966019, 857269, 270817,
     987219, 966908, 72595, 410729, 456024, 540308, 69484, 916462, 382414, 571643,
     86731, 384152, 938004, 187117, 71719, 884096, 599631, 126589, 541651, 712314,
     465570, 283757, 470749, 121170, 412331, 37965, 240201, 391834, 685538, 952600,
     5133, 731380, 416134, 335575, 188353, 913653, 724807, 6284, 443781, 611147,
     400496, 323400, 250418, 434030, 375198, 148626, 985965, 889759, 746032, 873275,
     20342, 953739, 746749, 43305, 853092, 83946, 395256, 536716, 259318, 625364,
     213252, 992548>>)
  @@
  \* key (-3, 2): 97 calls by generateChunk
  (30001 :> <<
     657964, 651046, 810810, 757261, 539102, 788036, 37742, 665640, 720374, 509055,
     814994, 606419, 586046, 872172, 580823, 76184, 43005, 853871, 850555, 161260,
     686812, 456499, 22719, 74763, 923694, 927714, 348762, 182238, 523378, 725497,
     499634, 168956, 197474, 471543, 901290, 70624, 360601, 73118, 856359, 16954,
     700818, 582725, 960506, 578166, 926423, 274986, 772855, 202341, 85862, 870811,
     964949, 531117, 928985, 415969, 545018, 557953, 385063, 934304, 434187, 276523,
     992704, 278707, 886561, 367994, 379673, 205002, 308607, 707049, 920446, 235443,
     275806, 161926, 669238, 851549, 998397, 614759, 640916, 58612, 196447, 103924,
     220263, 995015, 972189, 194800, 574914, 882399, 551348, 147584, 988531, 365072,
     545211, 136053, 932210, 857818, 130860, 947159, 811927, 598393, 800589, 810864,
     21312, 63424, 764986, 124037, 203649, 222536, 186051, 837520, 532077, 257889,
     460786, 357746, 672713>>)
  @@
  \* key (-3, 3): 78 calls by generateChunk
  (60012 :> <<
     431547, 34978, 243746, 737866, 782475, 310259, 703877, 81127, 676112, 863177,
     83179, 632016, 192136, 988629, 962166, 190375, 792081, 531680, 787834, 996362,
     278330, 356986, 987410, 800259, 15770, 314820, 379791, 306954, 318354, 951817,
     813701, 389898, 662321, 392749, 319761, 31832, 19643, 398401, 381815, 934314,
     841321, 277828, 955096, 668246, 240640, 133252, 118890, 712802, 3601, 990266,
     536215, 999998, 873234, 916963, 286596, 104494, 275815, 364247, 577203, 299432,
     384616, 18372, 425182, 304522, 885064, 598565, 157426, 356325, 203231, 803676,
     372409, 232102, 13629, 160497, 800563, 536854, 904928, 248, 886457, 654081,
     523477, 413891, 408681, 211804, 788935, 170254, 239139, 578390, 378487, 862765,
     885499, 485796, 138534, 532942>>)
  @@
  \* key (-2, -4): 109 calls by generateChunk
  (-140058 :> <<
     927951, 706555, 431296, 104957, 653623, 505107, 801025, 801115, 882976, 137489,
     516028, 168324, 693401, 302050, 941459, 106587, 52723, 93099, 229392, 336015,
     431761, 957512, 78081, 851996, 713099, 375296, 562871, 631178, 685903, 481757,
     936284, 443415, 384482, 239857, 125126, 851213, 290460, 243091, 363255, 381040,
     230087, 800475, 893619, 128343, 176614, 609045, 960018, 893605, 659883, 302681,
     691960, 401191, 835382, 847896, 214716, 578135, 351182, 522215, 369113, 213943,
     213745, 866185, 48923, 677853, 46919, 968025, 980844, 353860, 43482, 842737,
     331111, 759437, 712127, 586202, 300775, 860952, 337044, 998252, 57443, 553229,
     194011, 810824, 182040, 885912, 565247, 849227, 318032, 797376, 427983, 174564,
     408654, 819690, 127321, 480238, 409742, 966926, 381626, 772743, 639907, 565613,
     182295, 851484, 659602, 658351, 667388, 378881, 548956, 59286, 609670, 637257,
     348822, 341352, 828605, 44004, 609369, 301962, 356908, 68761, 143797, 826613,
     83999, 535133, 584194, 881775, 288670>>)
  @@
  \* key (-2, -3): 86 calls by generateChunk
  (-110047 :> <<
     400081, 827339, 795716, 609784, 37049, 506132, 155252, 268696, 851135, 105628,
     812115, 509035, 709262, 918394, 631644, 400597, 132718, 254374, 599445, 820354,
     168772, 215849, 696089, 681262, 913927, 634321, 744045, 582734, 392393, 851456,
     798359, 923162, 849893, 579484, 50485, 392179, 806537, 72895, 143212, 656684,
     417706, 482821, 910128, 700117, 834101, 913477, 866396, 256670, 869580, 605111,
     742329, 65101, 387364, 705923, 875441, 941927, 680340, 853366, 404266, 14615,
     27008, 850603, 176846, 254250, 639945, 913612, 964617, 111129, 316352, 616884,
     970742, 793270, 202081, 217158, 510477, 111855, 292346, 101505, 500994, 831037,
     85707, 539917, 585415, 468372, 191954, 949181, 375309, 301206, 409402, 936462,
     182368, 210177, 241754, 557480, 824551, 320343, 292839, 546997, 214658, 522853,
     2492, 125787>>)
  @@
  \* key (-2, -2): 88 calls by generateChunk
  (-80036 :> <<
     585244, 153739, 644902, 468340, 464198, 684469, 819347, 384142, 332633, 208055,
     884990, 250540, 499079, 646955, 46381, 25066, 122887, 422133, 590337, 754381,
     837099, 338106, 822077, 612042, 938792, 398936, 312718, 715597, 411032, 688524,
     393351, 376723, 805756, 637209, 643874, 515826, 204885, 37774, 375157, 161079,
     642150, 995251, 404219, 583060, 6230, 134215, 763096, 576401, 345562, 34853,
     189291, 692984, 487688, 970236, 380372, 693036, 785055, 798474, 373590, 334793,
     982042, 807033, 90240, 526914, 613284, 311743, 398562, 107513, 183495, 941835,
     533984, 547030, 462498, 75776, 462431, 950303, 573002, 668616, 853052, 709725,
     463395, 845467, 917677, 447682, 359155, 564159, 208784, 34297, 952672, 504820,
     200209, 288954, 111468, 612414, 49637, 311658, 117821, 405106, 974249, 891522,
     539342, 491833, 958309, 186474>>)
  @@
  \* key (-2, -1): 85 calls by generateChunk
  (-50025 :> <<
     581754, 867985, 644008, 728825, 327958, 274786, 758172, 333486, 428490, 84226,
     635172, 6863, 24612, 928780, 571745, 482733, 582484, 955247, 437555, 583611,
     311362, 639318, 462447, 755360, 195036, 463303, 367088, 757034, 846683, 752208,
     316835, 820653, 262732, 576234, 487260, 260619, 30649, 281539, 502346, 382778,
     379834, 505346, 364082, 352389, 246671, 196219, 837377, 777194, 545849, 703418,
     555366, 338001, 197507, 607978, 609726, 302733, 749896, 1454, 727777, 480274,
     342866, 278586, 35555, 151250, 211204, 37274, 40669, 344980, 432289, 725066,
     930132, 713283, 12537, 977940, 410862, 474795, 594060, 634788, 395888, 165797,
     103828, 231983, 96165, 726750, 420997, 78386, 391381, 404880, 599473, 590636,
     823309, 532357, 79696, 921771, 835257, 611313, 888782, 175428, 836275, 943571,
     131724>>)
  @@
  \* key (-2, 0): 105 calls by generateChunk
  (-20014 :> <<
     559728, 905393, 107972, 89510, 118710, 793035, 948087, 545193, 358671, 756427,
     237943, 11287, 349030, 728377, 479536, 733272, 148978, 183207, 473312, 984716,
     88341, 792335, 780460, 594102, 775548, 596980, 625655, 877013, 442698, 579018,
     86192, 241999, 874229, 702307, 206234, 426917, 530099, 526838, 371453, 840572,
     31103, 721677, 39310, 571060, 820911, 605790, 916869, 749947, 650433, 244489,
     184664, 80413, 409604, 1304, 844801, 560591, 975815, 505378, 355340, 835277,
     555329, 916007, 877206, 553769, 470728, 182299, 594261, 869908, 276251, 672189,
     911395, 512643, 857328, 314850, 140648, 357955, 349599, 812686, 339241, 498323,
     118104, 155787, 266400, 524935, 388336, 450485, 586603, 527137, 658619, 408487,
     96279, 371932, 67317, 699432, 34186, 10548, 947131, 474688, 656037, 983198,
     275939, 832540, 840977, 889526, 462687, 513885, 828107, 526402, 296977, 634202,
     158233, 203070, 958873, 593608, 475031, 339630, 461850, 981932, 779606, 358204,
     599680>>)
  @@
  \* key (-2, 1): 90 calls by generateChunk
  (9997 :> <<
     649492, 713774, 676876, 49492, 707502, 422914, 29901, 594091, 739399, 920426,
     510159, 934039, 424400, 401946, 836071, 599655, 559576, 946907, 493184, 529273,
     236043, 199543, 380466, 962020, 522455, 57951, 501911, 919665, 560366, 716840,
     332802, 762259, 467399, 740555, 640066, 660028, 198152, 708667, 423764, 665497,
     639648, 728785, 975493, 856491, 196546, 669258, 53141, 806860, 425699, 125392,
     318974, 470425, 999225, 445205, 247456, 107216, 894379, 468925, 383332, 563683,
     339708, 635384, 469036, 16998, 87127, 346044, 447533, 688156, 273243, 294129,
     921113, 849519, 697627, 924316, 983837, 612271, 993219, 431142, 139211, 645810,
     145942, 344347, 145907, 891800, 589651, 178245, 391932, 983397, 129830, 223919,
     533400, 370470, 585725, 696472, 69358, 94721, 950463, 798349, 897727, 890219,
     962597, 852147, 841838, 219802, 622792, 294838>>)
  @@
  \* key (-2, 2): 101 calls by generateChunk
  (40008 :> <<
     858696, 696022, 951270, 572191, 362830, 487100, 889610, 286458, 647701, 854009,
     851834, 479088, 428140, 693857, 8907, 948128, 542194, 748432, 653825, 609539,
     789178, 365044, 316070, 764225, 866168, 455173, 978186, 922335, 36245, 555880,
     515077, 428883, 533823, 84472, 809213, 733806, 338342, 612012, 407907, 831108,
     906430, 853997, 91213, 401440, 985675, 581681, 940815, 613866, 490616, 499215,
     776510, 47735, 902828, 753859, 942126, 664376, 656238, 850934, 219369, 646546,
     395375, 911266, 228369, 395041, 11614, 832556, 716735, 918528, 641909, 816012,
     992446, 869957, 888428, 362536, 30114, 452454, 752593, 1263, 155025, 312657,
     242541, 213669, 225646, 257332, 410639, 608204, 596897, 719576, 470372, 195399,
     120876, 186933, 530569, 642644, 779845, 686378, 740897, 964692, 543718, 396144,
     393272, 811301, 94801, 475677, 241865, 586209, 554961, 53179, 213376, 543202,
     200254, 377805, 252742, 260869, 68136, 917669, 836231>>)
  @@
  \* key (-2, 3): 98 calls by generateChunk
  (70019 :> <<
     633214, 147837, 412738, 51896, 595204, 629616, 303031, 794819, 306220, 754236,
     700730, 255110, 187868, 507432, 951710, 441164, 891557, 490715, 572057, 927942,
     401567, 230964, 162007, 236163, 239255, 111785, 747248, 627182, 727029, 495751,
     638237, 863333, 693627, 515254, 873103, 250994, 272650, 992060, 577844, 732629,
     322584, 803544, 679977, 256971, 901243, 816756, 396829, 9899, 358820, 252971,
     511766, 712870, 191710, 338031, 33695, 253108, 137613, 735247, 697237, 867608,
     415683, 335375, 268142, 720399, 198335, 851278, 560181, 863101, 778673, 371955,
     33800, 983737, 740792, 534012, 897680, 496318, 603090, 851396, 543034, 96564,
     751188, 142953, 327117, 585091, 558454, 460694, 361056, 560402, 581487, 157333,
     580577, 56024, 731866, 682341, 843843, 750254, 359529, 600502, 87570, 192366,
     634224, 935096, 270223, 985766, 83201, 856178, 613389, 827639, 971586, 851547,
     455776, 425814, 742130, 221949>>)
  @@
  \* key (-1, -4): 84 calls by generateChunk
  (-130051 :> <<
     463345, 817613, 308860, 384524, 83605, 693787, 160086, 480638, 361483, 979613,
     155686, 243513, 865879, 391210, 787669, 274298, 265311, 104812, 592980, 194746,
     131638, 454264, 263291, 990037, 370189, 665044, 95200, 366009, 495043, 212393,
     210311, 688991, 515478, 812881, 358371, 734053, 522500, 775068, 801966, 822358,
     102614, 943423, 661709, 788493, 155032, 56849, 492254, 293666, 685557, 673603,
     424624, 603767, 72139, 612127, 658102, 347233, 67358, 596091, 953695, 388252,
     851899, 189169, 228829, 754188, 507429, 349157, 938456, 374208, 16991, 129638,
     425060, 601779, 557935, 210858, 242613, 999494, 245871, 442158, 856745, 880420,
     355430, 62464, 285663, 803739, 309673, 51709, 639378, 980074, 67883, 623308,
     867685, 248601, 851013, 581233, 199553, 354359, 291431, 955835, 373714, 801220>>)
  @@
  \* key (-1, -3): 79 calls by generateChunk
  (-100040 :> <<
     203747, 561005, 555870, 964531, 427622, 718240, 142128, 468945, 857272, 838836,
     30380, 997070, 173149, 143050, 634666, 23263, 762357, 263117, 208738, 686013,
     285384, 46550, 457761, 872480, 323918, 162784, 631617, 570031, 189523, 947264,
     892144, 908893, 690116, 641903, 562407, 463095, 524714, 453404, 547879, 207515,
     661694, 55844, 479746, 69967, 634570, 662312, 185452, 993237, 482599, 159469,
     640121, 56197, 446720, 5196, 269828, 898939, 268141, 141730, 866900, 652291,
     819655, 747732, 458957, 102555, 953161, 85902, 718436, 852973, 563804, 430350,
     291849, 983440, 704522, 787642, 751055, 409727, 807425, 644405, 708997, 100833,
     368997, 953286, 971756, 660775, 825150, 18372, 103204, 803520, 353958, 144764,
     956767, 527063, 472976, 516086, 632049>>)
  @@
  \* key (-1, -2): 78 calls by generateChunk
  (-70029 :> <<
     146581, 968113, 327156, 993918, 598194, 3458, 590853, 988806, 212385, 255862,
     499175, 785564, 851491, 615089, 142637, 595469, 526389, 410671, 292960, 735260,
     524872, 856242, 786165, 737348, 125843, 421908, 483463, 261223, 402220, 586432,
     625841, 999731, 782687, 996924, 265179, 329297, 239003, 435998, 575820, 779200,
     106567, 189617, 82450, 293669, 297978, 380328, 504132, 782636, 452707, 264179,
     468092, 718609, 830751, 585435, 523939, 164679, 11063, 102861, 809400, 475555,
     94054, 295934, 948729, 782203, 115720, 566418, 150918, 73100, 132518, 605387,
     637784, 331015, 511800, 470645, 131172, 949175, 525028, 434927, 146654, 273279,
     725241, 872412, 999994, 857823, 739074, 338935, 343764, 863639, 893542, 407098,
     894118, 237189, 959524, 6263>>)
  @@
  \* key (-1, -1): 86 calls by generateChunk
  (-40018 :> <<
     537617, 681733, 762569, 29586, 802978, 217942, 125659, 418942, 263605, 437790,
     391008, 3991, 968805, 892486, 592742, 818577, 387948, 632436, 416472, 149699,
     806280, 8711, 360817, 183900, 615667, 915194, 927514, 547063, 691024, 120172,
     135028, 57496, 112254, 799572, 189124, 567482, 111519, 720634, 957153, 338036,
     57590, 95022, 682986, 211798, 265255, 540835, 254501, 734085, 433861, 919507,
     340712, 512604, 520496, 964405, 243197, 541619, 894421, 169760, 314485, 101691,
     84691, 843, 29173, 923713, 156948, 968890, 93091, 941231, 325611, 932673,
     325336, 678270, 778990, 354697, 2092, 960819, 720205, 525589, 65469, 21700,
     135809, 767619, 977, 203688, 595765, 15676, 545418, 77088, 848312, 940120,
     710139, 215065, 923195, 565048, 114525, 78547, 305651, 456630, 919140, 820769,
     650194, 793066>>)
  @@
  \* key (-1, 0): 110 calls by generateChunk
  (-10007 :> <<
     643870, 352861, 111791, 864795, 283495, 209408, 373744, 906736, 615652, 937945,
     908338, 23782, 874913, 448255, 599917, 866104, 500453, 58470, 754099, 30017,
     204722, 523969, 64917, 667378, 103190, 137071, 122900, 272264, 821993, 925360,
     191806, 567754, 728319, 34948, 55170, 48537, 793816, 903512, 526603, 277023,
     494051, 987433, 690009, 797617, 348528, 340627, 830971, 704323, 377270, 14325,
     246475, 370764, 403892, 866369, 12233, 982740, 641444, 451113, 132912, 427467,
     703053, 468727, 407689, 529752, 555849, 162123, 731492, 804629, 340656, 158430,
     472769, 97563, 507805, 272838, 561799, 484532, 77459, 618452, 506761, 456773,
     139126, 161607, 142248, 614279, 371447, 761635, 285201, 383079, 384579, 377656,
     574712, 748406, 432627, 137710, 938349, 141777, 881353, 594092, 910036, 277241,
     305918, 652060, 287364, 200230, 666212, 595321, 946080, 9387, 149651, 697372,
     364020, 879200, 632388, 20445, 769711, 906052, 902595, 617550, 475537, 795990,
     161326, 438322, 577156, 356861, 749069, 246371>>)
  @@
  \* key (-1, 1): 76 calls by generateChunk
  (20004 :> <<
     215201, 137105, 714152, 532275, 56186, 721544, 398021, 107638, 930635, 854919,
     58517, 871795, 76902, 828892, 969959, 484908, 922480, 543928, 568792, 351947,
     164094, 506920, 138759, 148916, 193934, 649410, 557219, 166248, 545579, 82390,
     326442, 557628, 597913, 370100, 331176, 11931, 146430, 481627, 353414, 983923,
     730449, 323409, 778019, 626319, 962324, 723945, 649426, 546949, 562640, 499173,
     690316, 707640, 614530, 539112, 961658, 553963, 606757, 244298, 661454, 697428,
     843465, 543726, 439638, 909864, 141575, 10325, 887343, 722015, 809960, 638314,
     502681, 636239, 480960, 8327, 162401, 521147, 125435, 850307, 823435, 381723,
     960328, 896932, 858238, 170479, 767428, 743639, 291547, 210778, 530169, 619914,
     821898, 32015>>)
  @@
  \* key (-1, 2): 67 calls by generateChunk
  (50015 :> <<
     15314, 368539, 390629, 514547, 933425, 122958, 686622, 289927, 310747, 474048,
     88115, 915517, 952115, 175285, 259137, 568381, 310431, 521061, 162448, 119336,
     221967, 118364, 439176, 910641, 654006, 80468, 172886, 156247, 806126, 52632,
     804980, 276514, 239418, 59194, 909360, 845848, 593995, 748292, 737643, 331214,
     588479, 667461, 226865, 787897, 129789, 369295, 9866, 530264, 630442, 470906,
     668516, 257788, 104688, 320178, 906038, 357235, 404758, 542699, 942040, 43964,
     614815, 730437, 701449, 662780, 419824, 344022, 623241, 391014, 822681, 710989,
     918819, 673325, 489542, 812231, 767058, 462110, 48073, 879585, 853979, 228524,
     979617, 43796, 612108>>)
  @@
  \* key (-1, 3): 92 calls by generateChunk
  (80026 :> <<
     587843, 838241, 197696, 942221, 133796, 34680, 181519, 894643, 166150, 23006,
     260980, 661671, 136093, 727336, 374248, 65563, 32271, 251661, 152960, 919550,
     337917, 74231, 749332, 693974, 88044, 620838, 814168, 214914, 413425, 635079,
     701748, 114248, 974138, 733736, 146900, 931814, 32695, 503643, 487749, 768326,
     679484, 242510, 322406, 435814, 110574, 821550, 994178, 303243, 442969, 196532,
     894143, 922953, 985817, 129660, 113655, 823744, 991092, 289026, 803286, 186608,
     939601, 704193, 39042, 843004, 722194, 554297, 913453, 201555, 108500, 568419,
     548095, 368486, 158399, 477783, 286959, 262430, 792617, 205712, 501745, 506402,
     661856, 883901, 46221, 120547, 501915, 778923, 515329, 298330, 264796, 892500,
     286380, 541983, 764222, 352071, 989257, 894913, 155497, 288362, 365977, 776449,
     385944, 894384, 721928, 455461, 206573, 985739, 746970, 993659>>)
  @@
  \* key (0, -4): 75 calls by generateChunk
  (-120044 :> <<
     32782, 62950, 590936, 698857, 448088, 1629, 759110, 199797, 685896, 384232,
     547236, 200847, 830207, 983173, 212449, 812121, 541128, 379714, 844431, 164180,
     590755, 729918, 523628, 36682, 127334, 510565, 835972, 831323, 579048, 997177,
     197310, 879500, 945558, 113487, 725314, 905555, 942001, 643627, 724419, 632330,
     135521, 758863, 248275, 857108, 792784, 625711, 88221, 578500, 115805, 977478,
     77009, 954426, 655959, 94396, 146150, 640619, 522781, 83537, 790438, 751146,
     158195, 291603, 976406, 83812, 569253, 312336, 115731, 180905, 666434, 901109,
     224196, 209153, 207602, 72139, 203971, 555125, 466476, 689362, 627837, 239612,
     461496, 498605, 890812, 560431, 847933, 633012, 328257, 369087, 542059, 190940,
     309702>>)
  @@
  \* key (0, -3): 107 calls by generateChunk
  (-90033 :> <<
     780728, 877819, 703648, 319235, 989160, 175359, 225262, 13155, 204828, 784556,
     481967, 577238, 665352, 788078, 152195, 489215, 845401, 974088, 744939, 603030,
     226630, 428368, 213478, 418401, 729358, 100821, 871707, 158240, 831470, 333141,
     847264, 193179, 743274, 406693, 810493, 53212, 239372, 876239, 251779, 88022,
     939042, 546741, 617664, 365815, 417701, 849985, 378501, 891259, 585308, 798024,
     989181, 722435, 830540, 139686, 906464, 967487, 262059, 661328, 214176, 310355,
     974785, 60619, 3395, 963778, 671764, 786635, 119097, 506491, 381777, 959086,
     104343, 314134, 46353, 125087, 187734, 692417, 87622, 592885, 103962, 51694,
     549027, 900125, 621778, 667639, 950736, 531169, 4147, 619927, 193608, 22241,
     800406, 556247, 362070, 639490, 135909, 521930, 52040, 853150, 971256, 398580,
     606326, 510930, 96224, 469797, 608711, 308131, 237444, 18611, 376985, 160065,
     960501, 854683, 401732, 324868, 693912, 435554, 74702, 688463, 357375, 63591,
     58040, 237107, 855381>>)
  @@
  \* key (0, -2): 97 calls by generateChunk
  (-60022 :> <<
     580538, 300345, 403695, 174757, 961, 142374, 578720, 576141, 398130, 622643,
     410540, 500072, 166433, 521351, 224864, 94362, 702112, 132508, 316532, 783565,
     258585, 123262, 771347, 309963, 883899, 326875, 549068, 836938, 385839, 400216,
     641442, 333026, 423169, 342540, 239266, 44211, 803572, 150990, 526630, 934870,
     979881, 207985, 232997, 286677, 636085, 425252, 717373, 701589, 881750, 108200,
     821571, 917915, 373853, 458344, 324800, 605878, 677279, 964204, 845578, 12282,
     7191, 216252, 370092, 523486, 335300, 498216, 481093, 784561, 514195, 373721,
     799998, 33243, 575871, 323792, 726046, 290413, 405715, 728253, 935209, 958860,
     220630, 881213, 66277, 339497, 420918, 483726, 922685, 112275, 351046, 761252,
     314486, 307235, 958653, 340307, 536055, 118252, 683172, 463210, 206924, 124037,
     91322, 451499, 570494, 930607, 334394, 897961, 786015, 802512, 425329, 672621,
     410601, 41023, 87182>>)
  @@
  \* key (0, -1): 90 calls by generateChunk
  (-30011 :> <<
     358371, 796809, 299087, 949726, 84806, 520301, 525627, 56443, 12302, 790824,
     10479, 873251, 888461, 905249, 379986, 945967, 396010, 600327, 111332, 474978,
     828028, 123924, 425662, 938359, 198503, 395428, 657498, 319884, 620221, 583670,
     129015, 762956, 210989, 269741, 849034, 896456, 936531, 508997, 444039, 730904,
     671969, 519284, 720478, 531471, 414276, 2680, 708191, 393575, 909574, 778904,
     51792, 245289, 892151, 957932, 411507, 8646, 554463, 754696, 993892, 643604,
     784182, 881221, 124108, 495889, 76404, 109834, 221066, 439729, 104248, 327204,
     756946, 589244, 677952, 412312, 671922, 899250, 838121, 440169, 102699, 458785,
     311165, 34716, 244209, 1339, 292380, 810292, 984208, 661368, 853560, 685455,
     80579, 32842, 832884, 59663, 524307, 78211, 897906, 24401, 520375, 366300,
     802508, 22750, 289431, 396765, 810846, 921694>>)
  @@
  \* key (0, 0): 56 calls by generateChunk
  (0 :> <<
     0, 0, 0, 0, 0, 0, 0, 0, 0, 0,
     0, 0, 0, 0, 0, 0, 0, 0, 0, 0,
     0, 0, 0, 0, 0, 0, 0, 0, 0, 0,
     0, 0, 0, 0, 0, 0, 0, 0, 0, 0,
     0, 0, 0, 0, 0, 0, 0, 0, 0, 0,
     0, 0, 0, 0, 0, 0, 0, 0, 0, 0,
     0, 0, 0, 0, 0, 0, 0, 0, 0, 0,
     0, 0>>)
  @@
  \* key (0, 1): 101 calls by generateChunk
  (30011 :> <<
     641628, 203190, 700912, 50273, 915193, 479698, 474372, 943556, 987697, 209175,
     989520, 126748, 111538, 94750, 620013, 54032, 603989, 399672, 888667, 525021,
     171971, 876075, 574337, 61640, 801496, 604571, 342501, 680115, 379778, 416329,
     870984, 237043, 789010, 730258, 150965, 103543, 63468, 491002, 555960, 269095,
     328030, 480715, 279521, 468528, 585723, 997319, 291808, 606424, 90425, 221095,
     948207, 754710, 107848, 42067, 588492, 991353, 445536, 245303, 6107, 356395,
     215817, 118778, 875891, 504110, 923595, 890165, 778933, 560270, 895751, 672795,
     243053, 410755, 322047, 587687, 328077, 100749, 161878, 559830, 897300, 541214,
     688834, 965283, 755790, 998660, 707619, 189707, 15791, 338631, 146439, 314544,
     919420, 967157, 167115, 940336, 475692, 921788, 102093, 975598, 479624, 633699,
     197491, 977249, 710568, 603234, 189153, 78305, 15536, 220823, 616972, 703770,
     453276, 77448, 370740, 736216, 323292, 432841, 99028>>)
  @@
  \* key (0, 2): 96 calls by generateChunk
  (60022 :> <<
     419461, 699654, 596304, 825242, 999038, 857625, 421279, 423858, 601869, 377356,
     589459, 499927, 833566, 478648, 775135, 905637, 297887, 867491, 683467, 216434,
     741414, 876737, 228652, 690036, 116100, 673124, 450931, 163061, 614160, 599783,
     358557, 666973, 576830, 657459, 760733, 955788, 196427, 849009, 473369, 65129,
     20118, 792014, 767002, 713322, 363914, 574747, 282626, 298410, 118249, 891799,
     178428, 82084, 626146, 541655, 675199, 394121, 322720, 35795, 154421, 987717,
     992808, 783747, 629907, 476513, 664699, 501783, 518906, 215438, 485804, 626278,
     200001, 966756, 424128, 676207, 273953, 709586, 594284, 271746, 64790, 41139,
     779369, 118786, 933722, 660502, 579081, 516273, 77314, 887724, 648953, 238747,
     685513, 692764, 41346, 659692, 463944, 881747, 316827, 536789, 793075, 875962,
     908677, 548500, 429505, 69392, 665605, 102038, 213984, 197487, 574670, 327378,
     589398, 958976>>)
  @@
  \* key (0, 3): 73 calls by generateChunk
  (90033 :> <<
     219271, 122180, 296351, 680764, 10839, 824640, 774737, 986844, 795171, 215443,
     518032, 422761, 334647, 211921, 847804, 510784, 154598, 25911, 255060, 396969,
     773369, 571631, 786521, 581598, 270641, 899178, 128292, 841759, 168529, 666858,
     152735, 806820, 256725, 593306, 189506, 946787, 760627, 123760, 748220, 911977,
     60957, 453258, 382335, 634184, 582298, 150014, 621498, 108740, 414691, 201975,
     10818, 277564, 169459, 860313, 93535, 32512, 737940, 338671, 785823, 689644,
     25214, 939380, 996604, 36221, 328235, 213364, 880902, 493508, 618222, 40913,
     895656, 685865, 953646, 874912, 812265, 307582, 912377, 407114, 896037, 948305,
     450972, 99874, 378221, 332360, 49263, 468830, 995852, 380072, 806391>>)
  @@
  \* key (1, -4): 85 calls by generateChunk
  (-110037 :> <<
     276237, 812381, 518599, 576752, 808865, 800564, 449362, 656637, 61420, 954162,
     856476, 14087, 298369, 279702, 402699, 241341, 628900, 360075, 736398, 901075,
     302862, 955789, 275378, 761623, 104411, 739142, 751557, 828271, 118286, 335666,
     4422, 824692, 476731, 966430, 614487, 619917, 72231, 211110, 464443, 996071,
     334483, 885913, 750932, 501832, 943922, 650848, 520473, 814298, 594448, 261463,
     498635, 46124, 590031, 273132, 42400, 778051, 759651, 400797, 896819, 3483,
     524395, 367797, 172717, 488339, 365314, 730164, 463473, 839598, 498654, 981899,
     998689, 557803, 873545, 886050, 36618, 539794, 782826, 409201, 111558, 817379,
     804639, 757665, 797316, 216049, 897289, 457906, 710433, 556719, 699729, 155946,
     275914, 247512, 808432, 750187, 473149, 695313, 674533, 836258, 62159, 806149,
     664079>>)
  @@
  \* key (1, -3): 83 calls by generateChunk
  (-80026 :> <<
     412156, 161758, 802303, 57778, 866203, 965319, 818480, 105356, 833849, 976993,
     739019, 338328, 863906, 272663, 625751, 934436, 967728, 748338, 847039, 80449,
     662082, 925768, 250667, 306025, 911955, 379161, 185831, 785085, 586574, 364920,
     298251, 885751, 25861, 266263, 853099, 68185, 967304, 496356, 512250, 231673,
     320515, 757489, 677593, 564185, 889425, 178449, 5821, 696756, 557030, 803467,
     105856, 77046, 14182, 870339, 886344, 176255, 8907, 710973, 196713, 813391,
     60398, 295806, 960957, 156995, 277805, 445702, 86546, 798444, 891499, 431580,
     451904, 631513, 841600, 522216, 713040, 737569, 207382, 794287, 498254, 493597,
     338143, 116098, 953778, 879452, 498084, 221076, 484670, 701669, 735203, 107499,
     713619, 458016, 235777, 647928, 10742, 105086, 844502, 711637, 634022>>)
  @@
  \* key (1, -2): 103 calls by generateChunk
  (-50015 :> <<
     984685, 631460, 609370, 485452, 66574, 877041, 313377, 710072, 689252, 525951,
     911884, 84482, 47884, 824714, 740862, 431618, 689568, 478938, 837551, 880663,
     778032, 881635, 560823, 89358, 345993, 919531, 827113, 843752, 193873, 947367,
     195019, 723485, 760581, 940805, 90639, 154151, 406004, 251707, 262356, 668785,
     411520, 332538, 773134, 212102, 870210, 630704, 990133, 469735, 369557, 529093,
     331483, 742211, 895311, 679821, 93961, 642764, 595241, 457300, 57959, 956035,
     385184, 269562, 298550, 337219, 580175, 655977, 376758, 608985, 177318, 289010,
     81180, 326674, 510457, 187768, 232941, 537889, 951926, 120414, 146020, 771475,
     20382, 956203, 387891, 211878, 129578, 379573, 148639, 517301, 995362, 817316,
     386626, 912541, 586663, 947385, 931735, 371006, 173891, 766508, 887634, 695413,
     356742, 373482, 961872, 851321, 215049, 123041, 812353, 373411, 244757, 787800,
     983841, 745238, 275284, 130716, 483619, 137559, 166307, 371586, 771109>>)
  @@
  \* key (1, -1): 100 calls by generateChunk
  (-20004 :> <<
     784798, 862894, 285847, 467724, 943813, 278455, 601978, 892361, 69364, 145080,
     941482, 128204, 923097, 171107, 30040, 515091, 77519, 456071, 431207, 648052,
     835905, 493079, 861240, 851083, 806065, 350589, 442780, 833751, 454420, 917609,
     673557, 442371, 402086, 629899, 668823, 988068, 853569, 518372, 646585, 16076,
     269550, 676590, 221980, 373680, 37675, 276054, 350573, 453050, 437359, 500826,
     309683, 292359, 385469, 460887, 38341, 446036, 393242, 755701, 338545, 302571,
     156534, 456273, 560361, 90135, 858424, 989674, 112656, 277984, 190039, 361685,
     497318, 363760, 519039, 991672, 837598, 478852, 874564, 149692, 176564, 618276,
     39671, 103067, 141761, 829520, 232571, 256360, 708452, 789221, 469830, 380085,
     178101, 967984, 776564, 308441, 927224, 70445, 621441, 498784, 744822, 433127,
     211696, 65372, 821879, 315887, 177443, 365332, 906524, 227590, 971906, 767307,
     570499, 474114, 108630, 918909, 463283, 263759>>)
  @@
  \* key (1, 0): 87 calls by generateChunk
  (10007 :> <<
     356129, 647138, 888208, 135204, 716504, 790591, 626255, 93263, 384347, 62054,
     91661, 976217, 125086, 551744, 400082, 133895, 499546, 941529, 245900, 969982,
     795277, 476030, 935082, 332621, 896809, 862928, 877099, 727735, 178006, 74639,
     808193, 432245, 271680, 965051, 944829, 951462, 206183, 96487, 473396, 722976,
     505948, 12566, 309990, 202382, 651471, 659372, 169028, 295676, 622729, 985674,
     753524, 629235, 596107, 133630, 987766, 17259, 358555, 548886, 867087, 572532,
     296946, 531272, 592310, 470247, 444150, 837876, 268507, 195370, 659343, 841569,
     527230, 902436, 492194, 727161, 438200, 515467, 922540, 381547, 493238, 543226,
     860873, 838392, 857751, 385720, 628552, 238364, 714798, 616920, 615420, 622343,
     425287, 251593, 567372, 862289, 61650, 858222, 118646, 405907, 89963, 722758,
     694081, 347939, 712635>>)
  @@
  \* key (1, 1): 83 calls by generateChunk
  (40018 :> <<
     462382, 318266, 237430, 970413, 197021, 782057, 874340, 581057, 736394, 562209,
     608991, 996008, 31194, 107513, 407257, 181422, 612051, 367563, 583527, 850300,
     193719, 991288, 639182, 816099, 384332, 84805, 72485, 452936, 308975, 879827,
     864971, 942503, 887745, 200427, 810875, 432517, 888480, 279365, 42846, 661963,
     942409, 904977, 317013, 788201, 734744, 459164, 745498, 265914, 566138, 80492,
     659287, 487395, 479503, 35594, 756802, 458380, 105578, 830239, 685514, 898308,
     915308, 999156, 970826, 76286, 843051, 31109, 906908, 58768, 674388, 67326,
     674663, 321729, 221009, 645302, 997907, 39180, 279794, 474410, 934530, 978299,
     864190, 232380, 999022, 796311, 404234, 984323, 454581, 922911, 151687, 59879,
     289860, 784934, 76804, 434951, 885474, 921452, 694348, 543369, 80859>>)
  @@
  \* key (1, 2): 104 calls by generateChunk
  (70029 :> <<
     853418, 31886, 672843, 6081, 401805, 996541, 409146, 11193, 787614, 744137,
     500824, 214435, 148508, 384910, 857362, 404530, 473610, 589328, 707039, 264739,
     475127, 143757, 213834, 262651, 874156, 578091, 516536, 738776, 597779, 413567,
     374158, 268, 217312, 3075, 734820, 670702, 760996, 564001, 424179, 220799,
     893432, 810382, 917549, 706330, 702021, 619671, 495867, 217363, 547292, 735820,
     531907, 281390, 169248, 414564, 476060, 835320, 988936, 897138, 190599, 524444,
     905945, 704065, 51270, 217796, 884279, 433581, 849081, 926899, 867481, 394612,
     362215, 668984, 488199, 529354, 868827, 50824, 474971, 565072, 853345, 726720,
     274758, 127587, 5, 142176, 260925, 661064, 656235, 136360, 106457, 592901,
     105881, 762810, 40475, 993736, 277023, 516928, 450607, 616960, 182102, 233507,
     15589, 719284, 541315, 434830, 174948, 529581, 458403, 86354, 381390, 30132,
     651153, 909734, 877915, 299294, 425649, 231892, 742554, 5482, 742684, 249917>>)
  @@
  \* key (1, 3): 99 calls by generateChunk
  (100040 :> <<
     796252, 438994, 444129, 35468, 572377, 281759, 857871, 531054, 142727, 161163,
     969619, 2929, 826850, 856949, 365333, 976736, 237642, 736882, 791261, 313986,
     714615, 953449, 542238, 127519, 676081, 837215, 368382, 429968, 810476, 52735,
     107855, 91106, 309883, 358096, 437592, 536904, 475285, 546595, 452120, 792484,
     338305, 944155, 520253, 930032, 365429, 337687, 814547, 6762, 517400, 840530,
     359878, 943802, 553279, 994803, 730171, 101060, 731858, 858269, 133099, 347708,
     180344, 252267, 541042, 897444, 46838, 914097, 281563, 147026, 436195, 569649,
     708150, 16559, 295477, 212357, 248944, 590272, 192574, 355594, 291002, 899166,
     631002, 46713, 28243, 339224, 174849, 981627, 896795, 196479, 646041, 855235,
     43232, 472936, 527023, 483913, 367950, 743748, 112262, 60231, 90001, 118325,
     440546, 185809, 530236, 959404, 373099, 725560, 421854, 743352, 48155, 229810,
     568999, 213732, 729107, 483696, 13190>>)
  @@
  \* key (2, -4): 87 calls by generateChunk
  (-100030 :> <<
     630046, 596056, 791082, 835270, 953334, 741154, 768901, 183652, 593373, 730122,
     879464, 580609, 558447, 622594, 113592, 25206, 880257, 648485, 734773, 357818,
     507819, 928815, 638728, 131215, 772879, 861416, 354159, 574002, 438979, 953319,
     347306, 669019, 921694, 830352, 367312, 508569, 196400, 637373, 838308, 91748,
     336744, 66892, 279980, 378049, 508797, 855617, 864915, 177909, 293897, 869738,
     935029, 815716, 741450, 116365, 815711, 312119, 476316, 773800, 450657, 642223,
     542087, 363734, 945966, 726184, 221334, 644664, 48027, 289600, 166026, 75147,
     803850, 592259, 222820, 585330, 166445, 748895, 242002, 218456, 272309, 546432,
     996315, 829511, 272360, 810003, 875405, 427113, 374353, 489363, 926797, 572783,
     75288, 868664, 234638, 85866, 718444, 889305, 257206, 495821, 679361, 745152,
     217145, 86923, 43329>>)
  @@
  \* key (2, -3): 72 calls by generateChunk
  (-70019 :> <<
     366785, 852162, 587261, 948103, 404795, 370383, 696968, 205180, 693779, 245763,
     299269, 744889, 812131, 492567, 48289, 558835, 108442, 509284, 427942, 72057,
     598432, 769035, 837992, 763836, 760744, 888214, 252751, 372817, 272970, 504248,
     361762, 136666, 306372, 484745, 126896, 749005, 727349, 7939, 422155, 267370,
     677415, 196455, 320022, 743028, 98756, 183243, 603170, 990100, 641179, 747028,
     488233, 287129, 808289, 661968, 966304, 746891, 862386, 264752, 302762, 132391,
     584316, 664624, 731857, 279600, 801664, 148721, 439818, 136898, 221326, 628044,
     966199, 16262, 259207, 465987, 102319, 503681, 396909, 148603, 456965, 903435,
     248811, 857046, 672882, 414908, 441545, 539305, 638943, 439597>>)
  @@
  \* key (2, -2): 68 calls by generateChunk
  (-40008 :> <<
     141303, 303977, 48729, 427808, 637169, 512899, 110389, 713541, 352298, 145990,
     148165, 520911, 571859, 306142, 991092, 51871, 457805, 251567, 346174, 390460,
     210821, 634955, 683929, 235774, 133831, 544826, 21813, 77664, 963754, 444119,
     484922, 571116, 466176, 915527, 190786, 266193, 661657, 387987, 592092, 168891,
     93569, 146002, 908786, 598559, 14324, 418318, 59184, 386133, 509383, 500784,
     223489, 952264, 97171, 246140, 57873, 335623, 343761, 149065, 780630, 353453,
     604624, 88733, 771630, 604958, 988385, 167443, 283264, 81471, 358090, 183987,
     7553, 130042, 111571, 637463, 969885, 547545, 247406, 998736, 844974, 687342,
     757458, 786330, 774353, 742667>>)
  @@
  \* key (2, -1): 76 calls by generateChunk
  (-9997 :> <<
     350507, 286225, 323123, 950507, 292497, 577085, 970098, 405908, 260600, 79573,
     489840, 65960, 575599, 598053, 163928, 400344, 440423, 53092, 506815, 470726,
     763956, 800456, 619533, 37979, 477544, 942048, 498088, 80334, 439633, 283159,
     667197, 237740, 532600, 259444, 359933, 339971, 801847, 291332, 576235, 334502,
     360351, 271214, 24506, 143508, 803453, 330741, 946858, 193139, 574300, 874607,
     681025, 529574, 774, 554794, 752543, 892783, 105620, 531074, 616667, 436316,
     660291, 364615, 530963, 983001, 912872, 653955, 552466, 311843, 726756, 705870,
     78886, 150480, 302372, 75683, 16162, 387728, 6780, 568857, 860788, 354189,
     854057, 655652, 854092, 108199, 410348, 821754, 608067, 16602, 870169, 776080,
     466599, 629529>>)
  @@
  \* key (2, 0): 109 calls by generateChunk
  (20014 :> <<
     440271, 94606, 892027, 910489, 881289, 206964, 51912, 454806, 641328, 243572,
     762056, 988712, 650969, 271622, 520463, 266727, 851021, 816792, 526687, 15283,
     911658, 207664, 219539, 405897, 224451, 403019, 374344, 122986, 557301, 420981,
     913807, 758000, 125770, 297692, 793765, 573082, 469900, 473161, 628546, 159427,
     968896, 278322, 960689, 428939, 179088, 394209, 83130, 250052, 349566, 755510,
     815335, 919586, 590395, 998695, 155198, 439408, 24184, 494621, 644659, 164722,
     444670, 83992, 122793, 446230, 529271, 817700, 405738, 130091, 723748, 327810,
     88604, 487356, 142671, 685149, 859351, 642044, 650400, 187313, 660758, 501676,
     881895, 844212, 733599, 475064, 611663, 549514, 413396, 472862, 341380, 591512,
     903720, 628067, 932682, 300567, 965813, 989451, 52868, 525311, 343962, 16801,
     724060, 167459, 159022, 110473, 537312, 486114, 171892, 473597, 703022, 365797,
     841766, 796929, 41126, 406391, 524968, 660369, 538149, 18067, 220393, 641795,
     400319, 304859, 186615, 809239, 863396>>)
  @@
  \* key (2, 1): 86 calls by generateChunk
  (50025 :> <<
     418245, 132014, 355991, 271174, 672041, 725213, 241827, 666513, 571509, 915773,
     364827, 993136, 975387, 71219, 428254, 517266, 417515, 44752, 562444, 416388,
     688637, 360681, 537552, 244639, 804963, 536696, 632911, 242965, 153316, 247791,
     683164, 179346, 737267, 423765, 512739, 739380, 969350, 718460, 497653, 617221,
     620165, 494653, 635917, 647610, 753328, 803780, 162622, 222805, 454150, 296581,
     444633, 661998, 802492, 392021, 390273, 697266, 250103, 998545, 272222, 519725,
     657133, 721413, 964444, 848749, 788795, 962725, 959330, 655019, 567710, 274933,
     69867, 286716, 987462, 22059, 589137, 525204, 405939, 365211, 604111, 834202,
     896171, 768016, 903834, 273249, 579002, 921613, 608618, 595119, 400526, 409363,
     176690, 467642, 920303, 78228, 164742, 388686, 111217, 824571, 163724, 56428,
     868275, 978436>>)
  @@
  \* key (2, 2): 78 calls by generateChunk
  (80036 :> <<
     414755, 846260, 355097, 531659, 535801, 315530, 180652, 615857, 667366, 791944,
     115009, 749459, 500920, 353044, 953618, 974933, 877112, 577866, 409662, 245618,
     162900, 661893, 177922, 387957, 61207, 601063, 687281, 284402, 588967, 311475,
     606648, 623276, 194243, 362790, 356125, 484173, 795114, 962225, 624842, 838920,
     357849, 4748, 595780, 416939, 993769, 865784, 236903, 423598, 654437, 965146,
     810708, 307015, 512311, 29763, 619627, 306963, 214944, 201525, 626409, 665206,
     17957, 192966, 909759, 473085, 386715, 688256, 601437, 892486, 816504, 58164,
     466015, 452969, 537501, 924223, 537568, 49696, 426997, 331383, 146947, 290274,
     536604, 154532, 82322, 552317, 640844, 435840, 791215, 965702, 47327, 495179,
     799790, 711045, 888531, 387585>>)
  @@
  \* key (2, 3): 88 calls by generateChunk
  (110047 :> <<
     599918, 172660, 204283, 390215, 962950, 493867, 844747, 731303, 148864, 894371,
     187884, 490964, 290737, 81605, 368355, 599402, 867281, 745625, 400554, 179645,
     831227, 784150, 303910, 318737, 86072, 365678, 255954, 417265, 607606, 148543,
     201640, 76837, 150106, 420515, 949514, 607820, 193462, 927104, 856787, 343315,
     582293, 517178, 89871, 299882, 165898, 86522, 133603, 743329, 130419, 394888,
     257670, 934898, 612635, 294076, 124558, 58072, 319659, 146633, 595733, 985384,
     972991, 149396, 823153, 745749, 360054, 86387, 35382, 888870, 683647, 383115,
     29257, 206729, 797918, 782841, 489522, 888144, 707653, 898494, 499005, 168962,
     914292, 460082, 414584, 531627, 808045, 50818, 624690, 698793, 590597, 63537,
     817631, 789822, 758245, 442519, 175448, 679656, 707160, 453002, 785341, 477146,
     997507, 874212, 928687, 228956>>)
  @@
  \* key (3, -4): 82 calls by generateChunk
  (-90023 :> <<
     443326, 443216, 306791, 859374, 734201, 560929, 849412, 814193, 898632, 71800,
     995925, 761064, 767540, 174997, 137657, 395791, 188003, 698027, 124603, 423140,
     389806, 59982, 251767, 794414, 521003, 828139, 574250, 227980, 987447, 534699,
     459892, 601943, 60940, 31724, 211705, 324995, 743701, 903642, 497959, 448153,
     36977, 868191, 348223, 792883, 499720, 79242, 251130, 995431, 9247, 981812,
     208654, 413555, 964302, 233501, 691286, 146747, 220362, 491846, 654945, 878749,
     644138, 971716, 557491, 92874, 140462, 166417, 488083, 516953, 628339, 381910,
     399607, 47913, 257725, 423507, 383011, 161692, 505056, 307978, 249544, 750750,
     122664, 312708, 591576, 781089, 608781, 379942, 212220, 12002, 552520, 508883,
     647804, 719120, 743364, 330669, 640896, 640500, 815532, 806392>>)
  @@
  \* key (3, -3): 93 calls by generateChunk
  (-60012 :> <<
     568452, 965021, 756253, 262133, 217524, 689740, 296122, 918872, 323887, 136822,
     916820, 367983, 807863, 11370, 37833, 809624, 207918, 468319, 212165, 3637,
     721669, 643013, 12589, 199740, 984229, 685179, 620208, 693045, 681645, 48182,
     186298, 610101, 337678, 607250, 680238, 968167, 980356, 601598, 618184, 65685,
     158678, 722171, 44903, 331753, 759359, 866747, 881109, 287197, 996398, 9733,
     463784, 1, 126765, 83036, 713403, 895505, 724184, 635752, 422796, 700567,
     615383, 981627, 574817, 695477, 114935, 401434, 842573, 643674, 796768, 196323,
     627590, 767897, 986370, 839502, 199436, 463145, 95071, 999751, 113542, 345918,
     476522, 586108, 591318, 788195, 211064, 829745, 760860, 421609, 621512, 137234,
     114500, 514203, 861465, 467057, 623856, 117380, 964319, 378370, 148968, 774272,
     374314, 752801, 937204, 257628, 799462, 34510, 677108, 123169, 858013>>)
  @@
  \* key (3, -2): 83 calls by generateChunk
  (-30001 :> <<
     342035, 348953, 189189, 242738, 460897, 211963, 962257, 334359, 279625, 490944,
     185005, 393580, 413953, 127827, 419176, 923815, 956994, 146128, 149444, 838739,
     313187, 543500, 977280, 925236, 76305, 72285, 651237, 817761, 476621, 274502,
     500365, 831043, 802525, 528456, 98709, 929375, 639398, 926881, 143640, 983045,
     299181, 417274, 39493, 421833, 73576, 725013, 227144, 797658, 914137, 129188,
     35050, 468882, 71014, 584030, 454981, 442046, 614936, 65695, 565812, 723476,
     7295, 721292, 113438, 632005, 620326, 794997, 691392, 292950, 79553, 764556,
     724193, 838073, 330761, 148450, 1602, 385240, 359083, 941387, 803552, 896075,
     779736, 4984, 27810, 805199, 425085, 117600, 448651, 852415, 11468, 634927,
     454788, 863946, 67789, 142181, 869139, 52840, 188072, 401606, 199410>>)
  @@
  \* key (3, -1): 94 calls by generateChunk
  (10 :> <<
     695775, 564830, 944112, 839228, 537563, 219044, 436166, 867856, 67986, 104755,
     441185, 635218, 622052, 465245, 23051, 744843, 655989, 209924, 682689, 990021,
     884459, 333232, 343948, 978857, 449906, 249498, 628671, 33980, 142730, 729182,
     12780, 33091, 927404, 589270, 543975, 459691, 930515, 83537, 617585, 428356,
     913268, 615847, 61995, 812882, 928280, 115903, 400368, 873410, 458348, 287685,
     534429, 716242, 529250, 878829, 587668, 962034, 759798, 608165, 314461, 47399,
     994866, 268619, 583865, 664424, 811646, 86346, 275192, 993715, 556218, 388852,
     599503, 676599, 749581, 565969, 624801, 851373, 14034, 110240, 253967, 126724,
     979657, 46260, 253250, 956694, 146907, 916053, 604743, 463283, 740681, 374635,
     786747, 7451, 496855, 590688, 591143, 778171, 93980, 135896, 176668, 179881,
     89584, 229726, 258312, 223480, 916838, 105101, 698269, 835639, 937011, 468827>>)
  @@
  \* key (3, 0): 71 calls by generateChunk
  (30021 :> <<
     74755, 116258, 164828, 295383, 806365, 605671, 383642, 848060, 998460, 939281,
     772320, 442280, 193370, 880421, 913739, 812029, 798755, 928460, 723335, 739208,
     281155, 354526, 670076, 499493, 942258, 717742, 115601, 390335, 990349, 121953,
     223834, 348093, 458498, 369256, 573649, 790462, 101412, 998973, 95824, 99613,
     648554, 802439, 555548, 172297, 255757, 757404, 346654, 356235, 493715, 595273,
     171259, 198108, 153302, 391861, 522271, 955369, 245832, 421744, 14364, 831993,
     203178, 484196, 837851, 446187, 806586, 817086, 27243, 255762, 206350, 214622,
     572344, 325484, 39787, 687820, 919814, 899876, 923994, 94803, 115755, 108768,
     308994, 2825, 259634, 113334, 163405, 383083, 549501>>)
  @@
  \* key (3, 1): 111 calls by generateChunk
  (60032 :> <<
     671883, 541377, 898784, 173006, 510537, 879633, 381660, 164744, 818135, 801497,
     328374, 469477, 85736, 30695, 302804, 863288, 137974, 725240, 842290, 623305,
     129812, 298528, 536370, 250332, 650276, 664383, 808484, 474784, 958146, 33868,
     863447, 695179, 394659, 989832, 185643, 982224, 891117, 964033, 283463, 865929,
     768201, 600469, 512865, 476992, 323126, 712264, 659202, 943194, 797572, 403336,
     46619, 275871, 979774, 696362, 541568, 159990, 506714, 924364, 560877, 772850,
     814145, 154420, 941204, 241188, 581120, 463150, 985836, 974732, 890173, 146497,
     246571, 864518, 135893, 611574, 536469, 201242, 352661, 435063, 201154, 758898,
     192781, 586376, 16128, 832790, 736241, 658714, 283416, 528367, 296774, 517175,
     573658, 732940, 27991, 455059, 88447, 515711, 944638, 565767, 237730, 154927,
     219584, 672770, 925271, 676083, 688810, 202354, 830307, 257978, 140148, 92453,
     699610, 755777, 150515, 811100, 388685, 716250, 703334, 320860, 86720, 790633,
     735801, 375500, 942336, 3766, 263427, 93064, 988804>>)
  @@
  \* key (3, 2): 85 calls by generateChunk
  (90043 :> <<
     306954, 189084, 859511, 364520, 209110, 597103, 965912, 521658, 60941, 546709,
     853, 791368, 612810, 754584, 441656, 609716, 777379, 168512, 566150, 781372,
     143121, 787493, 892410, 485229, 287154, 672808, 590199, 125851, 926430, 412760,
     133555, 353675, 634851, 395956, 623140, 611656, 932578, 658945, 6583, 961959,
     224461, 195559, 152993, 504503, 824093, 952827, 342590, 81081, 798064, 219791,
     110754, 894679, 468323, 242971, 313179, 358197, 509724, 885077, 783198, 929930,
     260808, 937694, 158201, 703607, 959413, 826311, 825638, 17177, 353036, 952204,
     608977, 611160, 451950, 742234, 699721, 696545, 191580, 883323, 447099, 761984,
     781351, 328222, 496205, 368909, 77196, 116259, 59071, 467400, 918942, 3803,
     666708, 156576, 367989, 60600, 247090, 448630, 569844, 452689, 115698, 26194,
     636620>>)
  @@
  \* key (3, 3): 78 calls by generateChunk
  (120054 :> <<
     263949, 208943, 255346, 135526, 886840, 558874, 687902, 376858, 518797, 356585,
     472703, 204365, 304411, 428824, 693320, 505114, 456454, 350354, 998845, 248164,
     789906, 102347, 24979, 793826, 97418, 144183, 553726, 242410, 71409, 246534,
     907848, 380084, 10357, 664010, 821218, 812487, 957382, 623568, 968716, 698645,
     689306, 405963, 974991, 786081, 339487, 216792, 306038, 102661, 278825, 433479,
     627895, 349361, 315267, 206052, 501522, 373924, 927913, 186683, 166382, 332237,
     639587, 308671, 252312, 309548, 328105, 484069, 675862, 642566, 291276, 687018,
     561827, 805296, 537808, 532629, 544661, 679319, 580218, 613410, 1687, 85449,
     544278, 245931, 46184, 978397, 397249, 17189, 44144, 87653, 746544, 167244,
     484289, 272815, 257915, 832839>>)
  @@
  \* key (5, 1): 78 calls by generateChunk
  (80046 :> <<
     473430, 669328, 70751, 749480, 44904, 440726, 432341, 442385, 965166, 292577,
     155376, 482992, 621745, 176649, 621317, 43800, 392956, 495205, 277860, 168868,
     818189, 963726, 220197, 643505, 403807, 611680, 871490, 295358, 909310, 923379,
     589783, 142796, 850322, 856098, 170974, 694070, 750985, 615665, 432295, 324845,
     640422, 36437, 103986, 606220, 317845, 137407, 991402, 593058, 561368, 144286,
     804833, 913586, 938817, 126074, 197724, 97275, 726319, 58599, 621058, 796028,
     898166, 441159, 777005, 435647, 612092, 376157, 691963, 949799, 433764, 252982,
     344849, 67296, 372136, 343164, 516531, 559903, 981301, 547714, 205547, 917842,
     900556, 552849, 430537, 305518, 751926, 141799, 773880, 194775, 178745, 359811,
     39393, 105760, 521123, 824188>>)

seededRand(seed) == RandTable[seed]

\* ================= CHUNK GENERATOR (ROAD-AWARE) =================
half == CHUNK_SIZE \div 2
step == 4

\* (rand() - 0.5) * CHUNK_SIZE + c * CHUNK_SIZE
RandCoord(r, c) ==
  ((r - RandScale \div 2) * CHUNK_SIZE) \div (RandScale \div PosScale)
    + c * CHUNK_SIZE * PosScale

RECURSIVE RoadLoop(_, _, _, _, _)
RoadLoop(cx, cz, x, z, roads) ==
  IF x > half THEN roads
  ELSE IF z > half THEN RoadLoop(cx, cz, x + step, -half, roads)
  ELSE LET wx == (cx * CHUNK_SIZE + x) * PosScale
           wz == (cz * CHUNK_SIZE + z) * PosScale
           r == getRoadAt(wx, wz)
       IN RoadLoop(cx, cz, x, z + step,
                   IF r.isRoad
                   THEN Append(roads, [x |-> wx, z |-> wz, dir |-> r.dir, type |-> r.type])
                   ELSE roads)

\* if (r.isRoad) continue;
RejectBuildingOnMainOnly(r) == r.type = "main"
RejectBuilding(r) == r.isRoad

MaxAttempts == 200

\* the loop condition letting one more pass through than the cap
BuildingGuardLateCap(buildings, bCount, attempts) ==
  Len(buildings) < bCount /\ attempts <= MaxAttempts

\* while (buildings.length < bCount && attempts < 200)
BuildingGuard(buildings, bCount, attempts) ==
  Len(buildings) < bCount /\ attempts < MaxAttempts

\* one pass of the body of the while loop; n counts the rand() calls made so far
BuildingPass(cx, cz, rand, attempts, buildings, n) ==
  LET x == RandCoord(rand[n + 1], cx)
      z == RandCoord(rand[n + 2], cz)
  IN IF RejectBuilding(getRoadAt(x, z))
     THEN [buildings |-> buildings, attempts |-> attempts + 1, n |-> n + 2]
     ELSE [buildings |-> Append(buildings,
                                [x |-> x, z |-> z,
                                 w |-> 2000 + (rand[n + 3] * 15) \div 10000,
                                 d |-> 2000 + (rand[n + 4] * 15) \div 10000,
                                 h |-> 3000 + (rand[n + 5] * 6) \div 1000]),
           attempts |-> attempts + 1, n |-> n + 5]

\* the loop continued from the state a pass has left
RECURSIVE BuildingLoop(_, _, _, _, _, _, _)
BuildingLoopFrom(cx, cz, rand, bCount, st) ==
  BuildingLoop(cx, cz, rand, bCount, st.attempts, st.buildings, st.n)

\* the while loop of the buildings
BuildingLoop(cx, cz, rand, bCount, attempts, buildings, n) ==
  IF ~BuildingGuard(buildings, bCount, attempts)
  THEN [buildings |-> buildings, attempts |-> attempts, n |-> n]
  ELSE BuildingLoopFrom(cx, cz, rand, bCount,
                        BuildingPass(cx, cz, rand, attempts, buildings, n))

NpcNudge == 3000

\* the position an NPC loop pass draws with the calls n+1, n+2, classified
NpcDrawn(cx, cz, rand, n) ==
  LET px == RandCoord(rand[n + 1], cx)
      pz == RandCoord(rand[n + 2], cz)
  IN [px |-> px, pz |-> pz, r |-> getRoadAt(px, pz)]

\* the same pass with the type taken from a source outside the seeded stream,
\* one that advances from one generator call to the next
NpcSpawnUnseeded(cx, cz, rand, n) ==
  LET d == NpcDrawn(cx, cz, rand, n)
      nx == IF d.r.isRoad /\ d.r.dir = "vertical" THEN d.px + NpcNudge ELSE d.px
      nz == IF d.r.isRoad /\ d.r.dir = "horizontal" THEN d.pz + NpcNudge ELSE d.pz
  IN [pos |-> <<nx, nz>>,
      type |-> NPC_TYPES[(probe.calls % Len(NPC_TYPES)) + 1]]

\* one pass of the NPC loop body: the spawn drawn with the calls n+1..n+3
NpcSpawn(cx, cz, rand, n) ==
  LET d == NpcDrawn(cx, cz, rand, n)
      px == d.px
      pz == d.pz
      r == d.r
      nx == IF r.isRoad /\ r.dir = "vertical" THEN px + NpcNudge ELSE px
      nz == IF r.isRoad /\ r.dir = "horizontal" THEN pz + NpcNudge ELSE pz
  IN [pos |-> <<nx, nz>>,
      type |-> NPC_TYPES[(rand[n + 3] * Len(NPC_TYPES)) \div RandScale + 1]]

RECURSIVE NpcLoop(_, _, _, _, _, _, _)
NpcLoop(cx, cz, rand, nCount, i, npcs, n) ==
  IF ~(i < nCount) THEN [npcs |-> npcs, n |-> n]
  ELSE NpcLoop(cx, cz, rand, nCount, i + 1,
               Append(npcs, NpcSpawn(cx, cz, rand, n)), n + 3)

\* if (!r.isRoad || r.type !== "main") continue;
DiscardVehicleOffRoadOnly(r) == ~r.isRoad
DiscardVehicle(r) == ~r.isRoad \/ r.type # "main"

\* the candidate a vehicle loop pass draws with the calls n+1, n+2, classified
VehicleCandidate(cx, cz, rand, n) ==
  LET t == rand[n + 1]
      axis == IF rand[n + 2] > RandScale \div 2 THEN "x" ELSE "z"
      base == IF axis = "x"
              THEN MathRound(cx * CHUNK_SIZE * PosScale, MAIN_AVENUE_SPACING)
                     * MAIN_AVENUE_SPACING
              ELSE MathRound(cz * CHUNK_SIZE * PosScale, MAIN_AVENUE_SPACING)
                     * MAIN_AVENUE_SPACING
      along(c) == c * CHUNK_SIZE * PosScale - (CHUNK_SIZE * PosScale) \div 2
                    + (t * CHUNK_SIZE) \div (RandScale \div PosScale)
      x == IF axis = "x" THEN base ELSE along(cx)
      z == IF axis = "z" THEN base ELSE along(cz)
  IN [x |-> x, z |-> z, r |-> getRoadAt(x, z)]

\* the vehicle loop; vCount is 0 or 1, so its body runs at most once
RECURSIVE VehicleLoop(_, _, _, _, _, _, _)
VehicleLoop(cx, cz, rand, vCount, i, vehicles, n) ==
  IF ~(i < vCount) THEN [vehicles |-> vehicles, n |-> n]
  ELSE LET c == VehicleCandidate(cx, cz, rand, n)
           x == c.x
           z == c.z
           r == c.r
       IN IF DiscardVehicle(r)
          THEN VehicleLoop(cx, cz, rand, vCount, i + 1, vehicles, n + 2)
          ELSE LET hover == rand[n + 4] > 600000
               IN VehicleLoop(cx, cz, rand, vCount, i + 1,
                    Append(vehicles,
                           [x |-> x, z |-> z, dir |-> r.dir,
                            speed |-> 30 + (rand[n + 3] * 20) \div RandScale,
                            type |-> IF hover THEN "hover"
                                     ELSE IF rand[n + 5] > 300000 THEN "wheel"
                                     ELSE "surreal",
                            driver |-> "null"]),
                    IF hover THEN n + 4 ELSE n + 5)

\* a seed whose second factor is three times the first
ChunkSeedMultiple(cx, cz) == cx * 10007 + cz * 30021

\* the argument of seededRand in generateChunk

ChunkSeed(cx, cz) == cx * 10007 + cz * 30011

\* generateChunk runs in phases, each continuing the seeded stream where the
\* one before it stopped: g holds what the phases so far have produced and n,
\* the number of rand() calls made so far

\* const bCount = 10 + Math.floor(rand() * 8), then the building loop
BuildingPhase(cx, cz, rand) ==
  [bCount |-> 10 + (rand[1] * 8) \div RandScale]
    @@ BuildingLoop(cx, cz, rand, 10 + (rand[1] * 8) \div RandScale, 0, <<>>, 1)

\* the NPC phase with a count drawn from 0..2: Math.floor(rand() * 3)
NpcPhaseNoMinimum(cx, cz, rand, g) ==
  [nCount |-> (rand[g.n + 1] * 3) \div RandScale, npcAt |-> g.n + 1]
    @@ NpcLoop(cx, cz, rand, (rand[g.n + 1] * 3) \div RandScale, 0, <<>>, g.n + 1)
    @@ g

\* const nCount = 1 + Math.floor(rand() * 3), then the NPC loop
NpcPhase(cx, cz, rand, g) ==
  [nCount |-> 1 + (rand[g.n + 1] * 3) \div RandScale, npcAt |-> g.n + 1]
    @@ NpcLoop(cx, cz, rand, 1 + (rand[g.n + 1] * 3) \div RandScale, 0, <<>>, g.n + 1)
    @@ g

\* const vCount = Math.floor(rand() * 2), then the vehicle loop
VehiclePhase(cx, cz, rand, g) ==
  [vCount |-> (rand[g.n + 1] * 2) \div RandScale, vehicleAt |-> g.n + 1]
    @@ VehicleLoop(cx, cz, rand, (rand[g.n + 1] * 2) \div RandScale, 0, <<>>, g.n + 1)
    @@ g

\* return { cx, cz, buildings, npcs, roads, vehicles }, kept with the counts
\* that were drawn, the loop passes made and the place of each loop in the stream
ChunkOf(cx, cz, roads, g) ==
  [chunk |-> [cx |-> cx, cz |-> cz, buildings |-> g.buildings,
              npcs |-> g.npcs, roads |-> roads, vehicles |-> g.vehicles],
   bCount |-> g.bCount, attempts |-> g.attempts, nCount |-> g.nCount,
   vCount |-> g.vCount, npcAt |-> g.npcAt, vehicleAt |-> g.vehicleAt,
   calls |-> g.n]

\* the body of generateChunk on the stream of its seed
GenerateWith(cx, cz, rand) ==
  ChunkOf(cx, cz, RoadLoop(cx, cz, -half, -half, <<>>),
          VehiclePhase(cx, cz, rand,
                       NpcPhase(cx, cz, rand, BuildingPhase(cx, cz, rand))))

\* one run of generateChunk
GenerateRun(cx, cz) == GenerateWith(cx, cz, seededRand(ChunkSeed(cx, cz)))

generateChunk(cx, cz) == GenerateRun(cx, cz).chunk

\* ================= STATE (VALUES) =================
NoVehicle == <<>>
NoChunk == [cx |-> 0, cz |-> 0, buildings |-> <<>>, npcs |-> <<>>,
            roads |-> <<>>, vehicles |-> <<>>]
NoProbe == [key |-> <<0, 0>>, calls |-> 0, first |-> NoChunk, second |-> NoChunk,
            chunk |-> NoChunk, ticks |-> 0]

\* the chunk key of a position: floor division by the chunk side
ChunkKey(p) == <<p[1] \div (CHUNK_SIZE * PosScale), p[3] \div (CHUNK_SIZE * PosScale)>>

\* the joystick at rest and at full deflection along one axis
JoystickInputs ==
  {[x |-> 0, y |-> 0], [x |-> 1, y |-> 0], [x |-> -1, y |-> 0],
   [x |-> 0, y |-> 1], [x |-> 0, y |-> -1]}

\* ================= VEHICLE (ENTERABLE + AI) =================
\* the AI branch of the Vehicle frame callback
AiTick(data) ==
  LET mx == IF data.dir = "vertical" THEN data.x ELSE data.x + data.speed
      mz == IF data.dir = "vertical" THEN data.z + data.speed ELSE data.z
      limit == WORLD_LIMIT * CHUNK_SIZE * PosScale
      lx == IF mx > limit THEN -limit ELSE mx
      lz == IF mz > limit THEN -limit ELSE mz
      r == getRoadAt(lx, lz)
  IN IF r.isRoad
     THEN [data EXCEPT
             !.dir = r.dir,
             !.x = IF r.dir = "vertical"
                   THEN MathRound(lx, STREET_SPACING) * STREET_SPACING ELSE lx,
             !.z = IF r.dir = "vertical"
                   THEN lz ELSE MathRound(lz, STREET_SPACING) * STREET_SPACING]
     ELSE [data EXCEPT !.x = lx, !.z = lz]

\* a frame callback whose AI branch also writes the speed of the record
VehicleFrameBraking(data, m) ==
  IF ~(m = "drive" /\ data.driver = "player")
  THEN [AiTick(data) EXCEPT !.speed = @ \div 2]
  ELSE data

\* the Vehicle frame callback on its data record, as rendered with mode m
VehicleFrame(data, m) ==
  IF ~(m = "drive" /\ data.driver = "player") THEN AiTick(data) ELSE data

\* p.distanceTo(ref.current.position) < ENTER_RADIUS
IsNear(p, data) ==
  LET dx == Abs(p[1] - data.x)
      dz == Abs(p[3] - data.z)
  IN /\ dx < ENTER_RADIUS
     /\ dz < ENTER_RADIUS
     /\ dx * dx + dz * dz < ENTER_RADIUS * ENTER_RADIUS

\* ================= CHUNK CACHE =================
\* the keys RandTable has a row for
TableKeys ==
  {<<x, z>> : x \in -4..3, z \in -4..3} \cup {<<-8, -5>>, <<-8, -4>>, <<-7, -7>>, <<-6, 0>>, <<5, 1>>}

\* generateChunk is a function of its key alone: its results, tabulated
Generated == [k \in TableKeys |-> generateChunk(k[1], k[2])]

\* a getChunk that generates the content anew on every request
getChunkRegenerating(cache, cx, cz) == Generated[hash(cx, cz)]

\* getChunk on the cache: the content stored under the key when it returns,
\* generated if the key was absent
getChunk(cache, cx, cz) ==
  LET k == hash(cx, cz)
  IN IF k \notin DOMAIN cache THEN Generated[k] ELSE cache[k]

\* the nested loops with the inner one stopping one key short
RECURSIVE KeepLoopShort(_, _, _, _, _)
KeepLoopShort(cx, cz, x, z, keep) ==
  IF ~(x <= VIEW_RADIUS) THEN keep
  ELSE IF ~(z < VIEW_RADIUS) THEN KeepLoopShort(cx, cz, x + 1, -VIEW_RADIUS, keep)
  ELSE KeepLoopShort(cx, cz, x, z + 1, keep \cup {hash(cx + x, cz + z)})

\* the nested loops of updateChunks: the keys they add to keep
RECURSIVE KeepLoop(_, _, _, _, _)
KeepLoop(cx, cz, x, z, keep) ==
  IF ~(x <= VIEW_RADIUS) THEN keep
  ELSE IF ~(z <= VIEW_RADIUS) THEN KeepLoop(cx, cz, x + 1, -VIEW_RADIUS, keep)
  ELSE KeepLoop(cx, cz, x, z + 1, keep \cup {hash(cx + x, cz + z)})

\* an eviction that deletes nothing
EvictNothing(cache, keep) == cache

\* an eviction that spares the chunks holding a vehicle
EvictKeepVehicles(cache, keep) ==
  [k \in {j \in DOMAIN cache : j \in keep \/ cache[j].vehicles # <<>>} |-> cache[k]]

\* for (const k of keys) if (!keep.has(k)) delete(k)
Evict(cache, keep) == [k \in {j \in DOMAIN cache : j \in keep} |-> cache[k]]

\* updateChunks with the position p its closure holds, on the cache: the loops
\* call getChunk for every key they add to keep, then the rest is deleted
updateChunks(p, cache) ==
  LET cx == p[1] \div (CHUNK_SIZE * PosScale)
      cz == p[3] \div (CHUNK_SIZE * PosScale)
      keep == KeepLoop(cx, cz, -VIEW_RADIUS, -VIEW_RADIUS, {})
      loaded == [k \in DOMAIN cache \cup keep |->
                   IF k \in keep THEN getChunk(cache, k[1], k[2]) ELSE cache[k]]
  IN Evict(loaded, keep)

\* ================= APP =================
\* the state of App when it has mounted
AppInit ==
  /\ pos = <<0, 0, 0>>
  /\ input = [x |-> 0, y |-> 0]
  /\ running = FALSE
  /\ mode = "walk"
  /\ activeVehicle = NoVehicle
  /\ chunks = <<>>
  /\ near = {}
  /\ frames = 0
  /\ driveFrames = 0
  /\ upd = [fresh |-> FALSE, calls |-> 0, centre |-> <<0, 0>>,
            before |-> {}, prevCentre |-> <<0, 0>>]
  /\ stale = {}

Init == AppInit /\ probe = NoProbe

\* Joystick: onInput(i)
Joystick(i) ==
  /\ input' = i
  /\ UNCHANGED <<pos, running, mode, activeVehicle, chunks, near, frames,
                 driveFrames, upd, stale, probe>>

\* RunButton: setRunning(b)
RunButton(b) ==
  /\ running' = b
  /\ UNCHANGED <<pos, input, mode, activeVehicle, chunks, near, frames,
                 driveFrames, upd, stale, probe>>

\* the player stays in the explored square
InBounds(p) ==
  /\ Abs(p[1]) <= MaxSteps * PLAYER_SPEED
  /\ Abs(p[3]) <= MaxSteps * PLAYER_SPEED

\* driving controls that also move the vehicle along z by the speed they set
DriveControlsMoving(data) ==
  [data EXCEPT
     !.speed = IF input.y # 0
               THEN DRIVE_SPEED * (IF input.y > 0 THEN 1 ELSE -1) ELSE @,
     !.z = IF input.y # 0
           THEN @ + DRIVE_SPEED * (IF input.y > 0 THEN 1 ELSE -1) ELSE @,
     !.dir = IF input.x # 0
             THEN @ \o (IF input.x > 0 THEN DRIVE_TURN ELSE "-" \o DRIVE_TURN)
             ELSE @]

\* the driving controls of GameLoop on the active vehicle's record
DriveControls(data) ==
  [data EXCEPT
     !.speed = IF input.y # 0
               THEN DRIVE_SPEED * (IF input.y > 0 THEN 1 ELSE -1) ELSE @,
     !.dir = IF input.x # 0
             THEN @ \o (IF input.x > 0 THEN DRIVE_TURN ELSE "-" \o DRIVE_TURN)
             ELSE @]

\* every mounted Vehicle callback on the chunks of the cache, rendered with mode m
TickAll(cache, m) ==
  [k \in DOMAIN cache |->
     [cache[k] EXCEPT !.vehicles = [i \in DOMAIN @ |-> VehicleFrame(@[i], m)]]]

\* the vehicles whose callback finds the player within ENTER_RADIUS
NearNow(p, ticked) ==
  {ref \in UNION {{<<k, i>> : i \in DOMAIN ticked[k].vehicles} : k \in DOMAIN ticked} :
     IsNear(p, ticked[ref[1]].vehicles[ref[2]])}

\* the driving controls of GameLoop on the cache
Driven(ticked) ==
  IF mode = "drive" /\ activeVehicle # NoVehicle
  THEN [ticked EXCEPT ![activeVehicle[1]].vehicles[activeVehicle[2]] =
          DriveControls(@)]
  ELSE ticked

\* the state a frame leaves: nearNow the near flags the Vehicle callbacks set,
\* driven the cache after the driving controls, after the cache after
\* updateChunks, if the frame called it
FrameResult(nearNow, driven, after) ==
  LET walking == mode = "walk" /\ (input.x # 0 \/ input.y # 0)
      speed == IF running THEN PLAYER_SPEED * RUN_MULTIPLIER ELSE PLAYER_SPEED
      npos == <<pos[1] + input.x * speed, 0, pos[3] + input.y * speed>>
  IN /\ walking => InBounds(npos)
     /\ frames' = frames + 1
     /\ driveFrames' = IF mode = "drive" THEN driveFrames + 1 ELSE driveFrames
     /\ pos' = IF walking THEN npos ELSE pos
     /\ chunks' = after
     /\ near' = {ref \in nearNow : ref[1] \in DOMAIN after}
     /\ upd' = IF walking
               THEN [fresh |-> TRUE,
                     calls |-> IF upd.calls < 2 THEN upd.calls + 1 ELSE 2,
                     centre |-> ChunkKey(pos), before |-> DOMAIN chunks,
                     prevCentre |-> upd.centre]
               ELSE [upd EXCEPT !.fresh = FALSE]
     /\ stale' = stale \cup {k \in DOMAIN driven \ DOMAIN after :
                               driven[k].vehicles # Generated[k].vehicles}
     /\ UNCHANGED <<input, running, mode, activeVehicle, probe>>

\* the GameLoop callback on the cache the driving controls have left;
\* setPos(npos) takes effect with the next render: updateChunks reads pos
FrameGameLoop(nearNow, driven) ==
  FrameResult(nearNow, driven,
              IF mode = "walk" /\ (input.x # 0 \/ input.y # 0)
              THEN updateChunks(pos, driven) ELSE driven)

\* the frame on the cache the Vehicle callbacks have left
FrameTicked(ticked) == FrameGameLoop(NearNow(pos, ticked), Driven(ticked))

\* one rendered frame: every mounted Vehicle callback, then the GameLoop callback
FrameStep == FrameTicked(TickAll(chunks, mode))

\* a frame, while the numbers of frames explored allow one
Frame ==
  /\ frames < MaxFrames
  /\ mode = "drive" => driveFrames < MaxDriveFrames
  /\ FrameStep

\* the click on a near vehicle: data.__driver = "player"; enterVehicle(data)
ClickVehicle(ref) ==
  /\ ref \in near
  /\ chunks' = [chunks EXCEPT ![ref[1]].vehicles[ref[2]].driver = "player"]
  /\ activeVehicle' = ref
  /\ mode' = "drive"
  /\ upd' = [upd EXCEPT !.fresh = FALSE]
  /\ UNCHANGED <<pos, input, running, near, frames, driveFrames, stale, probe>>

\* an exit that sets the mode and forgets to clear the active vehicle
ExitVehicleKeepActive ==
  /\ mode = "drive"
  /\ mode' = "walk"
  /\ upd' = [upd EXCEPT !.fresh = FALSE]
  /\ UNCHANGED <<pos, input, running, activeVehicle, chunks, near, frames,
                 driveFrames, stale, probe>>

\* the Exit Vehicle button, rendered in drive mode
ExitVehicle ==
  /\ mode = "drive"
  /\ chunks' = IF activeVehicle # NoVehicle
               THEN [chunks EXCEPT
                       ![activeVehicle[1]].vehicles[activeVehicle[2]].driver = "null"]
               ELSE chunks
  /\ activeVehicle' = NoVehicle
  /\ mode' = "walk"
  /\ upd' = [upd EXCEPT !.fresh = FALSE]
  /\ UNCHANGED <<pos, input, running, near, frames, driveFrames, stale, probe>>

Next ==
  \/ \E i \in JoystickInputs : Joystick(i)
  \/ \E b \in BOOLEAN : RunButton(b)
  \/ Frame
  \/ \E ref \in near : ClickVehicle(ref)
  \/ ExitVehicle

Spec == Init /\ [][Next]_vars

\* ================= THE APP, ON LONG STAYS IN A VEHICLE =================
\* The same handlers as Spec, with the stick released or pulled back only, no
\* RunButton, few frames in walk mode and many in drive mode: the traffic
\* moves on while the player sits in a vehicle.
StayInputs == {[x |-> 0, y |-> 0], [x |-> 0, y |-> -1]}

StayFrame ==
  /\ mode = "walk" => frames - driveFrames < MaxWalkFrames
  /\ mode = "drive" => driveFrames < MaxLongDrive
  /\ FrameStep

StayExit ==
  /\ driveFrames < MaxExitFrames
  /\ ExitVehicle

StayNext ==
  \/ \E i \in StayInputs : Joystick(i)
  \/ StayFrame
  \/ \E ref \in near : ClickVehicle(ref)
  \/ StayExit

StaySpec == Init /\ [][StayNext]_vars

\* ================= THE GENERATOR AND THE AI TICK ON THEIR OWN =================
\* the keys the generator is called with
ProbeInit ==
  /\ AppInit
  /\ \E k \in TableKeys : probe = [NoProbe EXCEPT !.key = k]

\* generateChunk(cx, cz), the first call for the key
ProbeGenerate ==
  /\ probe.calls = 0
  /\ LET c == generateChunk(probe.key[1], probe.key[2])
     IN probe' = [probe EXCEPT !.calls = 1, !.first = c, !.chunk = c]
  /\ UNCHANGED <<pos, input, running, mode, activeVehicle, chunks, near, frames,
                 driveFrames, upd, stale>>

\* generateChunk(cx, cz), a second call for the same key at any later time
ProbeRegenerate ==
  /\ probe.calls = 1
  /\ probe' = [probe EXCEPT !.calls = 2,
                            !.second = generateChunk(probe.key[1], probe.key[2])]
  /\ UNCHANGED <<pos, input, running, mode, activeVehicle, chunks, near, frames,
                 driveFrames, upd, stale>>

\* the Vehicle frame callback on every vehicle of the generated chunk
ProbeTick ==
  /\ probe.calls >= 1
  /\ probe.ticks < MaxTicks
  /\ probe' = [probe EXCEPT
                 !.ticks = @ + 1,
                 !.chunk.vehicles = [i \in DOMAIN @ |-> VehicleFrame(@[i], mode)]]
  /\ UNCHANGED <<pos, input, running, mode, activeVehicle, chunks, near, frames,
                 driveFrames, upd, stale>>

ProbeNext == ProbeGenerate \/ ProbeRegenerate \/ ProbeTick

ProbeSpec == ProbeInit /\ [][ProbeNext]_vars

\* ================= THE ROAD ORACLE ON ITS OWN =================
NoRoad == [isRoad |-> FALSE, type |-> "null", dir |-> "horizontal"]
NoTests == [mainX |-> FALSE, mainZ |-> FALSE, streetX |-> FALSE, streetZ |-> FALSE]
NoPeriod == [main |-> FALSE, mainNext |-> FALSE, street |-> FALSE, streetNext |-> FALSE]

\* the points the oracle is asked about
RoadInit ==
  /\ AppInit
  /\ \E i \in -MaxCells..MaxCells : \E j \in -MaxCells..MaxCells :
       probe = [x |-> i * GridStep, z |-> j * GridStep, steps |-> 0,
                tests |-> NoTests, r |-> NoRoad, period |-> NoPeriod]

\* getRoadAt(x, z), with the spacing tests it makes on the way
RoadClassify ==
  /\ probe.steps = 0
  /\ probe' = [probe EXCEPT !.steps = 1,
                            !.tests = RoadTests(probe.x, probe.z),
                            !.r = getRoadAt(probe.x, probe.z)]
  /\ UNCHANGED <<pos, input, running, mode, activeVehicle, chunks, near, frames,
                 driveFrames, upd, stale>>

\* the two spacing tests on the x of the point taken as a warped coordinate,
\* and on the coordinate one spacing farther
RoadShift ==
  /\ probe.steps = 1
  /\ probe' = [probe EXCEPT
                 !.steps = 2,
                 !.period = [main |-> onMain(probe.x),
                             mainNext |-> onMain(probe.x + MAIN_AVENUE_SPACING),
                             street |-> onStreet(probe.x),
                             streetNext |-> onStreet(probe.x + STREET_SPACING)]]
  /\ UNCHANGED <<pos, input, running, mode, activeVehicle, chunks, near, frames,
                 driveFrames, upd, stale>>

RoadNext == RoadClassify \/ RoadShift

RoadSpec == RoadInit /\ [][RoadNext]_vars

\* ================= THE BUILDING LOOP ON GIVEN STREAMS =================
\* return values of rand(), from the least to the greatest it can return
StreamValues == {0, RandScale \div 4, RandScale \div 2, 3 * (RandScale \div 4), RandScale - 1}

\* a stream that returns a and b in turn, long enough for every pass of the
\* loop and every building it can place
AlternatingStream(a, b) ==
  [i \in 1..(1 + 2 * (MaxAttempts + 1) + 5 * 17) |-> IF i % 2 = 1 THEN a ELSE b]

\* the keys and the streams the loop is run with: bCount is drawn, no pass
\* is made yet
LoopInit ==
  /\ AppInit
  /\ \E cx \in -1..1 : \E cz \in -1..1 : \E a \in StreamValues : \E b \in StreamValues :
       probe = [key |-> <<cx, cz>>, a |-> a, b |-> b,
                bCount |-> 10 + (a * 8) \div RandScale,
                buildings |-> <<>>, attempts |-> 0, n |-> 1, done |-> FALSE]

\* one pass of the building loop
LoopPass ==
  /\ ~probe.done
  /\ BuildingGuard(probe.buildings, probe.bCount, probe.attempts)
  /\ probe' = BuildingPass(probe.key[1], probe.key[2],
                           AlternatingStream(probe.a, probe.b),
                           probe.attempts, probe.buildings, probe.n) @@ probe
  /\ UNCHANGED <<pos, input, running, mode, activeVehicle, chunks, near, frames,
                 driveFrames, upd, stale>>

\* the loop condition fails: the loop is left
LoopExit ==
  /\ ~probe.done
  /\ ~BuildingGuard(probe.buildings, probe.bCount, probe.attempts)
  /\ probe' = [probe EXCEPT !.done = TRUE]
  /\ UNCHANGED <<pos, input, running, mode, activeVehicle, chunks, near, frames,
                 driveFrames, upd, stale>>

LoopNext == LoopPass \/ LoopExit

LoopSpec == LoopInit /\ [][LoopNext]_vars

\* ================= THE FIXED-CITY VARIANT (src/unnamed/part_002) =================
\* The variant has one city of CITY_SIZE units square, generated once, and a
\* player walking in it. Its state is kept in probe: playerPos, controls
\* (controlsRef.current, in 1/1000), canEnterShop and cityData.
\* Its missions and its shop are in probe too: tokens, activeMission (the id
\* of the mission, 0 for null), shopOpen, and started, the number of
\* startMission calls so far.
\* Left out: playerRot, isMoving and the camera (rendering), the colours of the
\* buildings, gameMsg.

\* const PLAYER_SPEED = 0.18 of this variant, in 1/1000 unit
CITY_PLAYER_SPEED == 180
CITY_SIZE == 60
BUILDING_COUNT == 40

\* the Math.random() draws of the first iterations that are chosen freely
MaxCityDraws == 1

\* const shopPos = [10, 0, 10]
shopPos == <<10 * PosScale, 0, 10 * PosScale>>

\* checkCollision without the margin of 0.3 around the buildings
checkCollisionNoMargin(newPos, buildings) ==
  \/ Abs(newPos[1]) > (CITY_SIZE * PosScale) \div 2
  \/ Abs(newPos[3]) > (CITY_SIZE * PosScale) \div 2
  \/ \E i \in DOMAIN buildings :
       /\ 2 * Abs(newPos[1] - buildings[i].position[1]) < buildings[i].size[1]
       /\ 2 * Abs(newPos[3] - buildings[i].position[3]) < buildings[i].size[3]

\* checkCollision(newPos, buildings): the city boundary, then the buildings;
\* dx < size/2 + 0.3 is compared doubled to stay in integers
checkCollision(newPos, buildings) ==
  \/ Abs(newPos[1]) > (CITY_SIZE * PosScale) \div 2
  \/ Abs(newPos[3]) > (CITY_SIZE * PosScale) \div 2
  \/ \E i \in DOMAIN buildings :
       /\ 2 * Abs(newPos[1] - buildings[i].position[1]) < buildings[i].size[1] + 600
       /\ 2 * Abs(newPos[3] - buildings[i].position[3]) < buildings[i].size[3] + 600

\* (Math.random() - 0.5) * CITY_SIZE, the draw in 1/RandScale, the result in 1/1000
CityCoord(r) ==
  IF r >= RandScale \div 2
  THEN ((r - RandScale \div 2) * CITY_SIZE) \div (RandScale \div PosScale)
  ELSE -(((RandScale \div 2 - r) * CITY_SIZE) \div (RandScale \div PosScale))

\* the two tests that skip an iteration: the roads, then the shop area
CitySkip(x, z) ==
  \/ Abs(x) < 5 * PosScale \/ Abs(z) < 5 * PosScale
  \/ Abs(x - shopPos[1]) < 6 * PosScale /\ Abs(z - shopPos[3]) < 6 * PosScale

\* the building an iteration pushes: position [x, height/2, z],
\* size [2 + random*2, height, 2 + random*2]
CityBuilding(x, z, draw) ==
  [position |-> <<x, (2000 + (draw.h * 6) \div 1000) \div 2, z>>,
   size |-> <<2000 + (draw.w * 2) \div 1000,
              2000 + (draw.h * 6) \div 1000,
              2000 + (draw.d * 2) \div 1000>>]

\* for (let i = 0; i < BUILDING_COUNT; i++), draws[i + 1] the Math.random()
\* results of iteration i
RECURSIVE CityLoop(_, _, _)
CityLoop(i, draws, buildings) ==
  IF i >= BUILDING_COUNT
  THEN buildings
  ELSE IF CitySkip(CityCoord(draws[i + 1].x), CityCoord(draws[i + 1].z))
       THEN CityLoop(i + 1, draws, buildings)
       ELSE CityLoop(i + 1, draws,
                     Append(buildings,
                            CityBuilding(CityCoord(draws[i + 1].x),
                                         CityCoord(draws[i + 1].z), draws[i + 1])))

\* the useMemo of the city, on the draws Math.random() returned
cityData(draws) == [buildings |-> CityLoop(0, draws, <<>>), shopPos |-> shopPos]

\* results of Math.random() for one iteration that places a building: one
\* at (6, -6), 3.8 by 2, and one at (-9, 5.4), 2 by 3.8
CityDraws ==
  {[x |-> 600000, z |-> 400000, h |-> 500000, w |-> 900000, d |-> 0],
   [x |-> 350000, z |-> 590000, h |-> 0, w |-> 0, d |-> 900000]}

\* an iteration whose position is on the road, and one in the shop area
RoadDraw == [x |-> 500000, z |-> 200000, h |-> 0, w |-> 0, d |-> 0]
ShopDraw == [x |-> 650000, z |-> 700000, h |-> 0, w |-> 0, d |-> 0]

\* what the joystick reports, in 1/1000: the rim of the stick along the axes,
\* and the stick released
CityInputs ==
  {[x |-> 0, y |-> 0], [x |-> 1000, y |-> 0], [x |-> -1000, y |-> 0],
   [x |-> 0, y |-> 1000], [x |-> 0, y |-> -1000]}

\* the state after App has mounted: useState([0, 0, 0]), controlsRef {0, 0},
\* the city of the draws: the first iterations place a building, every
\* later one is skipped, for the road or for the shop area
CityInit ==
  /\ AppInit
  /\ \E first \in [1..MaxCityDraws -> CityDraws] :
       probe = [variant |-> "city",
                playerPos |-> <<0, 0, 0>>,
                controls |-> [x |-> 0, y |-> 0],
                canEnterShop |-> FALSE,
                tokens |-> 0,
                activeMission |-> 0,
                shopOpen |-> FALSE,
                started |-> 0,
                cityData |-> cityData([i \in 1..BUILDING_COUNT |->
                                         IF i <= MaxCityDraws THEN first[i]
                                         ELSE IF i % 2 = 0 THEN RoadDraw
                                         ELSE ShopDraw])]

\* handleJoystick = (data) => { controlsRef.current = data }
handleJoystick(data) ==
  /\ probe.variant = "city"
  /\ probe' = [probe EXCEPT !.controls = data]
  /\ UNCHANGED <<pos, input, running, mode, activeVehicle, chunks, near, frames,
                 driveFrames, upd, stale>>

\* Math.abs(x) > 0.1 || Math.abs(y) > 0.1
StickMoved(c) == Abs(c.x) > 100 \/ Abs(c.y) > 100

\* const newPos = [playerPos[0] + moveX, playerPos[1], playerPos[2] + moveZ]
newPos(p, c) ==
  <<p[1] + (c.x * CITY_PLAYER_SPEED) \div 1000, p[2],
    p[3] + (c.y * CITY_PLAYER_SPEED) \div 1000>>

\* distToShop < 4, on the position the frame started with; squared, in 1/100
NearShop(p) ==
  ((p[1] - shopPos[1]) \div 10) * ((p[1] - shopPos[1]) \div 10)
    + ((p[3] - shopPos[3]) \div 10) * ((p[3] - shopPos[3]) \div 10) < 400 * 400

\* the id, the target and the reward of the missions
MISSIONS ==
  <<[id |-> 1, targetPos |-> <<15000, 500, -15000>>, reward |-> 100],
    [id |-> 2, targetPos |-> <<0, 500, 12000>>, reward |-> 200],
    [id |-> 3, targetPos |-> <<-18000, 0, -18000>>, reward |-> 50]>>

\* distToTarget < 1.5, on the position the frame started with; squared, in 1/100
AtTarget(p, m) ==
  ((p[1] - MISSIONS[m].targetPos[1]) \div 10) * ((p[1] - MISSIONS[m].targetPos[1]) \div 10)
    + ((p[3] - MISSIONS[m].targetPos[3]) \div 10) * ((p[3] - MISSIONS[m].targetPos[3]) \div 10)
    < 150 * 150

\* the frame callback of this variant's GameLoop: the movement, the shop
\* entry, the mission objective
GameLoop ==
  /\ probe.variant = "city"
  /\ probe' = [probe EXCEPT
       !.playerPos =
         IF /\ StickMoved(probe.controls)
            /\ ~checkCollision(newPos(probe.playerPos, probe.controls),
                               probe.cityData.buildings)
         THEN newPos(probe.playerPos, probe.controls)
         ELSE @,
       !.canEnterShop = NearShop(probe.playerPos),
       !.tokens =
         IF probe.activeMission # 0 /\ AtTarget(probe.playerPos, probe.activeMission)
         THEN @ + MISSIONS[probe.activeMission].reward
         ELSE @,
       !.activeMission =
         IF probe.activeMission # 0 /\ AtTarget(probe.playerPos, probe.activeMission)
         THEN 0
         ELSE @]
  /\ UNCHANGED <<pos, input, running, mode, activeVehicle, chunks, near, frames,
                 driveFrames, upd, stale>>

CityNext ==
  \/ \E data \in CityInputs : handleJoystick(data)
  \/ GameLoop

CitySpec == CityInit /\ [][CityNext]_vars

\* ================= THE SEEDS OF TWO KEYS =================
\* two keys with coordinates in -WORLD_LIMIT..WORLD_LIMIT, kept in probe
SeedInit ==
  /\ AppInit
  /\ \E ax \in -WORLD_LIMIT..WORLD_LIMIT : \E az \in -WORLD_LIMIT..WORLD_LIMIT :
     \E bx \in -WORLD_LIMIT..WORLD_LIMIT : \E bz \in -WORLD_LIMIT..WORLD_LIMIT :
       probe = [a |-> <<ax, az>>, b |-> <<bx, bz>>, steps |-> 0,
                seedA |-> 0, seedB |-> 0]

\* the seed generateChunk computes for each of the two keys
SeedCompute ==
  /\ probe.steps = 0
  /\ probe' = [probe EXCEPT !.steps = 1,
                            !.seedA = ChunkSeed(probe.a[1], probe.a[2]),
                            !.seedB = ChunkSeed(probe.b[1], probe.b[2])]
  /\ UNCHANGED <<pos, input, running, mode, activeVehicle, chunks, near, frames,
                 driveFrames, upd, stale>>

SeedNext == SeedCompute

SeedSpec == SeedInit /\ [][SeedNext]_vars

\* ================= src/src/App.jsx: THE ODYSSEY APP =================
\* This variant has one meadow with four objects, a delivery mission, a
\* colour puzzle and a shop. Its state is kept in probe: the useState values
\* of App by their names, the strings in place of the objects (the id of the
\* interaction target, a tag for the dialogue text, "null" for null), and
\* the history the properties speak about: starts, pickups and rewards count
\* the mission starts, the parcel grabs and the Elder's rewards, solved the
\* accepted sequences, since the colour clicks made since the overlay last
\* came up (at most as many as PUZZLE_SEQUENCE is long), asked whether they
\* were the colours of PUZZLE_SEQUENCE in its order.
\* Left out: the cat, the camera, the arrow (rendering).

\* const MOVEMENT_SPEED = 0.15 and INTERACTION_DIST = 3.5, in 1/1000 unit
MOVEMENT_SPEED == 150
INTERACTION_DIST == 3500

NPC_DATA ==
  <<[id |-> "elder", position |-> <<8000, 0, 8000>>, type |-> "npc"],
    [id |-> "monolith", position |-> <<-8000, 1000, -8000>>, type |-> "puzzle"],
    [id |-> "rock", position |-> <<8000, 1000, -8000>>, type |-> "landmark"],
    [id |-> "parcel_spawn", position |-> <<-5000, 500, 5000>>, type |-> "item"]>>

\* an item without type or color has "undefined" there
SHOP_ITEMS ==
  <<[id |-> "skin_neon", cost |-> 100, color |-> "#00ffcc", type |-> "undefined"],
    [id |-> "skin_gold", cost |-> 200, color |-> "#ffcc00", type |-> "undefined"],
    [id |-> "fortune", cost |-> 20, color |-> "undefined", type |-> "consumable"]>>

PUZZLE_SEQUENCE == <<"red", "green", "blue", "red">>

\* the player is followed MaxReach frames of walking away from the origin
MaxReach == 56
\* mission starts and accepted sequences explored
MaxMissions == 2
MaxSolved == 1

\* the stick released, and pushed 35 of its 50 pixels along both axes
OdysseyInputs ==
  {[x |-> 0, y |-> 0], [x |-> 700, y |-> 700], [x |-> -700, y |-> 700],
   [x |-> -700, y |-> -700], [x |-> 700, y |-> -700]}

\* the state after App has mounted
OdysseyInit ==
  /\ AppInit
  /\ probe = [variant |-> "odyssey",
              pos |-> <<0, 0, 0>>,
              input |-> [x |-> 0, y |-> 0],
              tokens |-> 10,
              isCarrying |-> FALSE,
              outfitColor |-> "#ec4899",
              missionState |-> [active |-> FALSE, type |-> "null"],
              spawnParcel |-> FALSE,
              interactionTarget |-> "null",
              dialogue |-> "null",
              showShop |-> FALSE,
              showPuzzle |-> FALSE,
              puzzleInput |-> <<>>,
              starts |-> 0, pickups |-> 0, rewards |-> 0, solved |-> 0,
              since |-> 0, asked |-> TRUE]

\* what a handler of this variant leaves alone
OdysseyFrame ==
  UNCHANGED <<pos, input, running, mode, activeVehicle, chunks, near, frames,
              driveFrames, upd, stale>>

\* Joystick: onMove(i), which is setInput
setInput(i) ==
  /\ probe.variant = "odyssey"
  /\ probe' = [probe EXCEPT !.input = i]
  /\ OdysseyFrame

\* the square of the distance on the ground between p and an object, in 1/1000
Dist2(p, q) == (p[1] - q[1]) * (p[1] - q[1]) + (p[3] - q[3]) * (p[3] - q[3])

\* NPC_DATA.forEach of the proximity detection, from object i on: the id of
\* the nearest object closer than INTERACTION_DIST, the parcel only while it
\* is spawned
RECURSIVE Nearest(_, _, _, _, _)
Nearest(p, spawn, i, nearest, minDist2) ==
  IF i > Len(NPC_DATA)
  THEN nearest
  ELSE IF NPC_DATA[i].id = "parcel_spawn" /\ ~spawn
       THEN Nearest(p, spawn, i + 1, nearest, minDist2)
       ELSE IF /\ Dist2(p, NPC_DATA[i].position) < INTERACTION_DIST * INTERACTION_DIST
               /\ (minDist2 < 0 \/ Dist2(p, NPC_DATA[i].position) < minDist2)
            THEN Nearest(p, spawn, i + 1, NPC_DATA[i].id,
                         Dist2(p, NPC_DATA[i].position))
            ELSE Nearest(p, spawn, i + 1, nearest, minDist2)

\* the frame callback of GameLogic: the movement, then the proximity
\* detection on the position the frame started with (minDist Infinity is -1)
GameLogic ==
  /\ probe.variant = "odyssey"
  /\ probe' = [probe EXCEPT
       !.pos = IF probe.input.x # 0 \/ probe.input.y # 0
               THEN <<@[1] + (probe.input.x * MOVEMENT_SPEED) \div 1000, @[2],
                      @[3] + (probe.input.y * MOVEMENT_SPEED) \div 1000>>
               ELSE @,
       !.interactionTarget = Nearest(probe.pos, probe.spawnParcel, 1, "null", -1)]
  /\ OdysseyFrame

\* the Elder branch with a reward for every visit during the mission,
\* whether the parcel is carried or not
InteractElderGenerous ==
  IF ~probe.missionState.active
  THEN /\ probe.starts < MaxMissions
       /\ probe' = [probe EXCEPT
            !.dialogue = "Elder: Greetings!",
            !.missionState = [active |-> TRUE, type |-> "delivery"],
            !.spawnParcel = TRUE,
            !.starts = @ + 1]
  ELSE probe' = [probe EXCEPT
         !.dialogue = "Elder: Wonderful!",
         !.tokens = @ + 50,
         !.missionState = [active |-> FALSE, type |-> "null"],
         !.isCarrying = FALSE,
         !.rewards = @ + 1]

\* the Elder branch of handleInteract
InteractElder ==
  IF ~probe.missionState.active
  THEN /\ probe.starts < MaxMissions
       /\ probe' = [probe EXCEPT
            !.dialogue = "Elder: Greetings!",
            !.missionState = [active |-> TRUE, type |-> "delivery"],
            !.spawnParcel = TRUE,
            !.starts = @ + 1]
  ELSE IF probe.missionState.type = "delivery" /\ probe.isCarrying
  THEN probe' = [probe EXCEPT
         !.dialogue = "Elder: Wonderful!",
         !.tokens = @ + 50,
         !.missionState = [active |-> FALSE, type |-> "null"],
         !.isCarrying = FALSE,
         !.rewards = @ + 1]
  ELSE IF probe.missionState.type = "delivery" /\ ~probe.isCarrying
  THEN probe' = [probe EXCEPT !.dialogue = "Elder: Use your scanner arrow"]
  ELSE probe' = [probe EXCEPT !.dialogue = "Elder: The winds are calm today."]

\* the parcel branch of handleInteract
InteractParcel ==
  /\ probe.pickups <= MaxMissions
  /\ probe' = [probe EXCEPT
       !.dialogue = "System: Parcel Acquired.",
       !.isCarrying = TRUE,
       !.spawnParcel = FALSE,
       !.pickups = @ + 1]

\* handleInteract, behind the button that is rendered while there is a
\* target and no dialogue, puzzle or shop is shown
handleInteract ==
  /\ probe.variant = "odyssey"
  /\ probe.interactionTarget # "null"
  /\ probe.dialogue = "null" /\ ~probe.showPuzzle /\ ~probe.showShop
  /\ CASE probe.interactionTarget = "elder" -> InteractElder
       [] probe.interactionTarget = "parcel_spawn" -> InteractParcel
       [] probe.interactionTarget = "monolith" ->
            probe' = [probe EXCEPT !.showPuzzle = TRUE, !.since = 0, !.asked = TRUE]
       [] probe.interactionTarget = "rock" ->
            probe' = [probe EXCEPT !.dialogue = "It's humming"]
  /\ OdysseyFrame

\* newSeq.every((val, index) => val === PUZZLE_SEQUENCE[index])
IsCorrect(newSeq) == \A index \in DOMAIN newSeq : newSeq[index] = PUZZLE_SEQUENCE[index]

\* handlePuzzleClick(color), behind the three buttons of the overlay
handlePuzzleClick(color) ==
  /\ probe.variant = "odyssey"
  /\ probe.showPuzzle
  /\ LET newSeq == Append(probe.puzzleInput, color)
         since == IF probe.since < Len(PUZZLE_SEQUENCE) THEN probe.since + 1
                  ELSE probe.since
         asked == IF probe.since < Len(PUZZLE_SEQUENCE)
                  THEN probe.asked /\ color = PUZZLE_SEQUENCE[probe.since + 1]
                  ELSE probe.asked
     IN  IF Len(newSeq) = Len(PUZZLE_SEQUENCE)
         THEN IF IsCorrect(newSeq)
              THEN /\ probe.solved < MaxSolved
                   /\ probe' = [probe EXCEPT
                        !.dialogue = "Monolith: Access Granted.",
                        !.tokens = @ + 100,
                        !.showPuzzle = FALSE,
                        !.puzzleInput = <<>>,
                        !.solved = @ + 1,
                        !.since = since, !.asked = asked]
              ELSE probe' = [probe EXCEPT
                     !.dialogue = "Monolith: Sequence Failed.",
                     !.puzzleInput = <<>>,
                     !.since = since, !.asked = asked]
         ELSE probe' = [probe EXCEPT !.puzzleInput = newSeq,
                                   !.since = since, !.asked = asked]
  /\ OdysseyFrame

\* the Cancel button of the overlay: setShowPuzzle(false)
CancelPuzzle ==
  /\ probe.variant = "odyssey"
  /\ probe.showPuzzle
  /\ probe' = [probe EXCEPT !.showPuzzle = FALSE]
  /\ OdysseyFrame

\* buyItem without the test of the balance
buyItemOnCredit(item) ==
  /\ probe.variant = "odyssey"
  /\ probe.showShop
  /\ IF item.type = "consumable"
     THEN probe' = [probe EXCEPT !.tokens = @ - item.cost, !.dialogue = "Fortune"]
     ELSE probe' = [probe EXCEPT !.tokens = @ - item.cost,
                                 !.outfitColor = item.color,
                                 !.dialogue = "Equipped"]
  /\ OdysseyFrame

\* buyItem(item), behind the Buy button of each item of the shop
buyItem(item) ==
  /\ probe.variant = "odyssey"
  /\ probe.showShop
  /\ IF probe.tokens >= item.cost
     THEN IF item.type = "consumable"
          THEN probe' = [probe EXCEPT !.tokens = @ - item.cost, !.dialogue = "Fortune"]
          ELSE probe' = [probe EXCEPT !.tokens = @ - item.cost,
                                      !.outfitColor = item.color,
                                      !.dialogue = "Equipped"]
     ELSE probe' = [probe EXCEPT !.dialogue = "Not enough tokens!"]
  /\ OdysseyFrame

\* the bag button: setShowShop(!showShop); the cross of the shop:
\* setShowShop(false)
ToggleShop ==
  /\ probe.variant = "odyssey"
  /\ probe' = [probe EXCEPT !.showShop = ~@]
  /\ OdysseyFrame

CloseShop ==
  /\ probe.variant = "odyssey"
  /\ probe.showShop
  /\ probe' = [probe EXCEPT !.showShop = FALSE]
  /\ OdysseyFrame

\* the Close button of the dialogue: setDialogue(null)
CloseDialogue ==
  /\ probe.variant = "odyssey"
  /\ probe.dialogue # "null"
  /\ probe' = [probe EXCEPT !.dialogue = "null"]
  /\ OdysseyFrame

\* the player is followed along the two diagonals of the meadow, where the
\* objects stand, MaxReach frames of walking from the origin
OnDiagonal(p) ==
  /\ Abs(p[1]) = Abs(p[3])
  /\ Abs(p[1]) <= (MaxReach * 700 * MOVEMENT_SPEED) \div 1000

\* the frames explored: on the ground whose z is not negative, where the
\* Elder and the parcel are
MeadowFrame ==
  /\ GameLogic
  /\ OnDiagonal(probe'.pos)
  /\ probe'.pos[3] >= 0
  /\ Abs(probe'.pos[1]) <= (MaxReach * 700 * MOVEMENT_SPEED) \div 1000

OdysseyNext ==
  \/ \E i \in OdysseyInputs : setInput(i)
  \/ MeadowFrame
  \/ handleInteract
  \/ CloseDialogue
  \/ CloseShop
  \/ ToggleShop
  \/ \E n \in DOMAIN SHOP_ITEMS : buyItem(SHOP_ITEMS[n])

OdysseySpec == OdysseyInit /\ [][OdysseyNext]_vars

\* the frames explored around the monolith: on the ground whose x and z are
\* not positive
MonolithFrame ==
  /\ GameLogic
  /\ OnDiagonal(probe'.pos)
  /\ probe'.pos[1] <= 0 /\ probe'.pos[3] <= 0

PuzzleColors == {"red", "green", "blue"}

PuzzleNext ==
  \/ \E i \in OdysseyInputs : setInput(i)
  \/ MonolithFrame
  \/ handleInteract
  \/ CloseDialogue
  \/ \E c \in PuzzleColors : handlePuzzleClick(c)
  \/ CancelPuzzle

PuzzleSpec == OdysseyInit /\ [][PuzzleNext]_vars

\* ================= THE SHOPS OF THE VARIANTS =================
\* The shop and the missions of the city variant (src/unnamed/part_002).

\* the ENTER SHOP button, rendered while canEnterShop && !shopOpen
EnterShop ==
  /\ probe.variant = "city"
  /\ probe.canEnterShop /\ ~probe.shopOpen
  /\ probe' = [probe EXCEPT !.shopOpen = TRUE]
  /\ OdysseyFrame

\* the Leave Shop button: setShopOpen(false)
LeaveShop ==
  /\ probe.variant = "city"
  /\ probe.shopOpen
  /\ probe' = [probe EXCEPT !.shopOpen = FALSE]
  /\ OdysseyFrame

\* startMission(id), behind the mission buttons of the shop
startMission(id) ==
  /\ probe.variant = "city"
  /\ probe.shopOpen
  /\ probe.started < MaxMissions
  /\ probe' = [probe EXCEPT !.activeMission = id,
                            !.shopOpen = FALSE,
                            !.started = @ + 1]
  /\ OdysseyFrame

\* buyCookie(), behind the 20 CR button of the shop
buyCookie ==
  /\ probe.variant = "city"
  /\ probe.shopOpen
  /\ probe' = [probe EXCEPT !.tokens = IF probe.tokens >= 20 THEN @ - 20 ELSE @]
  /\ OdysseyFrame

\* the stick released, and pushed 28 of its 40 pixels along both axes
TownInputs == {[x |-> 0, y |-> 0], [x |-> 700, y |-> 700], [x |-> -700, y |-> -700]}

\* the player is followed MaxStroll frames of walking from the origin along
\* the diagonal that passes the shop and ends at the Elder Tree
MaxStroll == 136

TownFrame ==
  /\ GameLoop
  /\ probe'.playerPos[1] = probe'.playerPos[3]
  /\ Abs(probe'.playerPos[1]) <= (MaxStroll * 700 * CITY_PLAYER_SPEED) \div 1000

TownNext ==
  \/ \E data \in TownInputs : handleJoystick(data)
  \/ TownFrame
  \/ EnterShop
  \/ LeaveShop
  \/ \E id \in DOMAIN MISSIONS : startMission(id)
  \/ buyCookie

\* The island variant (src/unnamed/part_000, the second App): a player, a
\* shop at (15, 15) and the tokens; its state in probe by the names of
\* the useState values. Left out: rot and the camera (rendering), the
\* world data and the NPCs, which no handler reads.

\* const PLAYER_SPEED = 0.3 of this variant, in 1/1000 unit
ISLAND_PLAYER_SPEED == 300

IslandInit ==
  /\ AppInit
  /\ probe = [variant |-> "island",
              pos |-> <<0, 0, 0>>,
              moveInput |-> [x |-> 0, y |-> 0],
              tokens |-> 50,
              shopOpen |-> FALSE,
              canShop |-> FALSE]

\* Joystick: onInput(i), which is setMoveInput
setMoveInput(i) ==
  /\ probe.variant = "island"
  /\ probe' = [probe EXCEPT !.moveInput = i]
  /\ OdysseyFrame

\* d < 6 of the shop at (15, 0, 15); squared, in 1/100
CanShop(p) ==
  ((p[1] - 15000) \div 10) * ((p[1] - 15000) \div 10)
    + ((p[3] - 15000) \div 10) * ((p[3] - 15000) \div 10) < 600 * 600

\* the frame callback of this variant's GameLogic
IslandGameLogic ==
  /\ probe.variant = "island"
  /\ probe' = [probe EXCEPT
       !.pos = IF probe.moveInput.x # 0 \/ probe.moveInput.y # 0
               THEN <<@[1] + (probe.moveInput.x * ISLAND_PLAYER_SPEED) \div 1000, @[2],
                      @[3] + (probe.moveInput.y * ISLAND_PLAYER_SPEED) \div 1000>>
               ELSE @,
       !.canShop = CanShop(probe.pos)]
  /\ OdysseyFrame

\* the OPEN SHOP button, rendered while canShop && !shopOpen
IslandOpenShop ==
  /\ probe.variant = "island"
  /\ probe.canShop /\ ~probe.shopOpen
  /\ probe' = [probe EXCEPT !.shopOpen = TRUE]
  /\ OdysseyFrame

\* the Buy Cookie (10 T) button of the shop
IslandBuyCookie ==
  /\ probe.variant = "island"
  /\ probe.shopOpen
  /\ probe' = [probe EXCEPT !.tokens = IF probe.tokens >= 10 THEN @ - 10 ELSE @]
  /\ OdysseyFrame

\* the Close button of the shop: setShopOpen(false)
IslandCloseShop ==
  /\ probe.variant = "island"
  /\ probe.shopOpen
  /\ probe' = [probe EXCEPT !.shopOpen = FALSE]
  /\ OdysseyFrame

\* the frames explored: along the diagonal towards the shop
IslandFrame ==
  /\ IslandGameLogic
  /\ probe'.pos[1] = probe'.pos[3]
  /\ probe'.pos[1] >= 0
  /\ probe'.pos[1] <= (MaxReach * 700 * ISLAND_PLAYER_SPEED) \div 1000

IslandNext ==
  \/ \E i \in TownInputs : setMoveInput(i)
  \/ IslandFrame
  \/ IslandOpenShop
  \/ IslandBuyCookie
  \/ IslandCloseShop

\* the three variants that sell for tokens, each from its own mount
ShopInit == OdysseyInit \/ CityInit \/ IslandInit

ShopNext == OdysseyNext \/ TownNext \/ IslandNext

ShopSpec == ShopInit /\ [][ShopNext]_vars

\* ================= PROPERTIES =================
Max(a, b) == IF a > b THEN a ELSE b
Chebyshev(a, b) == Max(Abs(a[1] - b[1]), Abs(a[2] - b[2]))
AllKeys == (-WORLD_LIMIT..WORLD_LIMIT) \X (-WORLD_LIMIT..WORLD_LIMIT)
\* the keys within Chebyshev distance VIEW_RADIUS of the key c
Window(c) == {k \in AllKeys : Chebyshev(k, c) <= VIEW_RADIUS}
OnMain(x, z) == getRoadAt(x, z).isRoad /\ getRoadAt(x, z).type = "main"
ProbeRun == GenerateRun(probe.key[1], probe.key[2])
ProbeCandidate ==
  VehicleCandidate(probe.key[1], probe.key[2],
                   seededRand(ChunkSeed(probe.key[1], probe.key[2])),
                   ProbeRun.vehicleAt)

C2_ExactWindow == upd.fresh => DOMAIN chunks = Window(upd.centre)

\* a call that found a populated cache, loaded keys and evicted keys
C2_Witness ==
  /\ upd.fresh
  /\ upd.before # {}
  /\ DOMAIN chunks \ upd.before # {}
  /\ upd.before \ DOMAIN chunks # {}

\* C3 as stated: after a walking frame that moved the player the resident
\* keys are the window centred on the key of the updated position.
C3_WindowOnUpdatedPosition == upd.fresh => DOMAIN chunks = Window(ChunkKey(pos))

\* C4 as stated: in every reachable state the chunk of the player's current
\* position is resident.
C4_PlayerChunkResident == ChunkKey(pos) \in DOMAIN chunks

\* C5: no building of a generated chunk stands on a road.
C5_NoBuildingOnRoad ==
  probe.calls >= 1 =>
    \A i \in DOMAIN probe.first.buildings :
      ~getRoadAt(probe.first.buildings[i].x, probe.first.buildings[i].z).isRoad

\* a generated chunk for which at least one drawn position was on a road
C5_Witness ==
  /\ probe.calls >= 1
  /\ probe.first.buildings # <<>>
  /\ ProbeRun.attempts > Len(probe.first.buildings)

\* C6 as stated: after every tick every AI-driven vehicle is on a road of
\* type "main".
C6_VehiclesStayOnMain ==
  \A i \in DOMAIN probe.chunk.vehicles :
    probe.chunk.vehicles[i].driver # "player" =>
      OnMain(probe.chunk.vehicles[i].x, probe.chunk.vehicles[i].z)

\* C7: every vehicle generateChunk returns spawns on a road of type "main",
\* and a candidate classified as street or as no road is not in the list.
C7_VehiclesSpawnOnMain ==
  probe.calls >= 1 =>
    /\ \A i \in DOMAIN probe.first.vehicles :
         getRoadAt(probe.first.vehicles[i].x, probe.first.vehicles[i].z).type = "main"
    /\ (ProbeRun.vCount = 1 /\ ProbeCandidate.r.type # "main")
         => probe.first.vehicles = <<>>

\* a generated chunk whose vehicle candidate was on a street and was discarded
C7_Witness ==
  /\ probe.calls >= 1
  /\ ProbeRun.vCount = 1
  /\ ProbeCandidate.r.type = "street"
  /\ probe.first.vehicles = <<>>

\* C8 as stated: every NPC spawn of a generated chunk is off the road, the
\* nudged ones included.
C8_NpcsOffRoad ==
  probe.calls >= 1 =>
    \A i \in DOMAIN probe.first.npcs :
      ~getRoadAt(probe.first.npcs[i].pos[1], probe.first.npcs[i].pos[2]).isRoad

\* C9: a key resident before a call of updateChunks and farther than
\* VIEW_RADIUS from the call's centre key is absent right after the call.
C9_OutsideEvicted ==
  upd.fresh =>
    \A k \in upd.before : Chebyshev(k, upd.centre) > VIEW_RADIUS => k \notin DOMAIN chunks

\* a call that found resident a key outside its window
C9_Witness ==
  /\ upd.fresh
  /\ \E k \in upd.before : Chebyshev(k, upd.centre) > VIEW_RADIUS

\* C10: a key outside the window of the previous call, resident after this
\* one, holds freshly generated content: its vehicles are as generateChunk
\* returns them, nothing of an earlier residency is reused.
C10_FreshAfterEviction ==
  (upd.fresh /\ upd.calls = 2) =>
    \A k \in DOMAIN chunks :
      Chebyshev(k, upd.prevCentre) > VIEW_RADIUS =>
        chunks[k].vehicles = Generated[k].vehicles

\* a key evicted with a moved vehicle is resident again
C10_Witness ==
  /\ upd.fresh
  /\ upd.calls = 2
  /\ \E k \in stale \cap DOMAIN chunks :
       /\ Chebyshev(k, upd.prevCentre) > VIEW_RADIUS
       /\ chunks[k].vehicles # <<>>

\* C11: a key resident before a call of updateChunks and still resident after
\* it keeps its stored content: the frame leaves each of its vehicles where
\* that vehicle's own frame callback put it, it is not generated again.
C11_ResidentNotRegenerated ==
  [][(frames' = frames + 1 /\ upd'.fresh) =>
       \A k \in DOMAIN chunks \cap DOMAIN chunks' :
         chunks'[k] = [chunks[k] EXCEPT !.vehicles =
                         [i \in DOMAIN @ |-> VehicleFrame(@[i], mode)]]]_vars

\* after a second call a key resident through it holds a vehicle away from
\* its spawn
C11_Witness ==
  /\ upd.fresh
  /\ upd.calls = 2
  /\ \E k \in upd.before \cap DOMAIN chunks :
       chunks[k].vehicles # Generated[k].vehicles

\* C12: where a main test and a street test both pass the type is "main";
\* the type is "street" only when no main test passes; isRoad is true
\* exactly when the type is not null.
C12_MainPrecedence ==
  probe.steps >= 1 =>
    /\ (probe.tests.mainX \/ probe.tests.mainZ) => probe.r.type = "main"
    /\ probe.r.type = "street" =>
         /\ ~(probe.tests.mainX \/ probe.tests.mainZ)
         /\ (probe.tests.streetX \/ probe.tests.streetZ)
    /\ probe.r.isRoad <=> probe.r.type # "null"

\* a point where a vertical street crosses a horizontal main avenue
C12_Witness ==
  /\ probe.steps >= 1
  /\ probe.tests.mainZ
  /\ ~probe.tests.mainX
  /\ probe.tests.streetX
  /\ probe.r.type = "main"

\* C13: the building loop is left after at most 200 position draws, also
\* when every draw is on a road, with at most bCount buildings, fewer only
\* when the cap of 200 was reached.
C13_BuildingLoopCapped ==
  /\ probe.attempts <= 200
  /\ Len(probe.buildings) <= probe.bCount
  /\ probe.done =>
       (Len(probe.buildings) < probe.bCount => probe.attempts = 200)

\* a run in which every draw was on a road: the cap ended it with no building
C13_Witness ==
  /\ probe.done
  /\ probe.attempts = 200
  /\ probe.buildings = <<>>

\* C14: every call of generateChunk returns a chunk with at most 17 buildings,
\* between 1 and 3 NPCs and at most one vehicle.
C14_ChunkPopulation ==
  probe.calls >= 1 =>
    /\ Len(probe.first.buildings) <= 17
    /\ Len(probe.first.npcs) \in 1..3
    /\ Len(probe.first.vehicles) <= 1

\* a generated chunk at the upper ends: 17 buildings drawn and placed,
\* three NPCs and a vehicle
C14_Witness ==
  /\ probe.calls >= 1
  /\ Len(probe.first.buildings) = 17
  /\ Len(probe.first.npcs) = 3
  /\ Len(probe.first.vehicles) = 1

\* C15: in the fixed-city variant the player is never inside a building's
\* footprint expanded by the margin of 0.3 and never outside the city square,
\* and a frame whose proposed position collides leaves the position unchanged.
C15_PlayerNeverCollides ==
  /\ [](/\ Abs(probe.playerPos[1]) <= (CITY_SIZE * PosScale) \div 2
        /\ Abs(probe.playerPos[3]) <= (CITY_SIZE * PosScale) \div 2
        /\ \A i \in DOMAIN probe.cityData.buildings :
             LET b == probe.cityData.buildings[i]
             IN ~(/\ 2 * Abs(probe.playerPos[1] - b.position[1]) < b.size[1] + 600
                  /\ 2 * Abs(probe.playerPos[3] - b.position[3]) < b.size[3] + 600))
  /\ [][(/\ GameLoop
         /\ StickMoved(probe.controls)
         /\ checkCollision(newPos(probe.playerPos, probe.controls),
                           probe.cityData.buildings))
          => probe'.playerPos = probe.playerPos]_vars

\* the player has walked up to a building and the stick points into it: the
\* proposed position is inside the city and collides
C15_Witness ==
  /\ probe.playerPos # <<0, 0, 0>>
  /\ StickMoved(probe.controls)
  /\ Abs(newPos(probe.playerPos, probe.controls)[1]) <= (CITY_SIZE * PosScale) \div 2
  /\ Abs(newPos(probe.playerPos, probe.controls)[3]) <= (CITY_SIZE * PosScale) \div 2
  /\ checkCollision(newPos(probe.playerPos, probe.controls), probe.cityData.buildings)

\* C16: every building generateChunk places for the key (cx, cz) is in the
\* tile of that key: floor(b.x / CHUNK_SIZE) = cx and floor(b.z / CHUNK_SIZE) = cz.
C16_BuildingsInOwnTile ==
  probe.calls >= 1 =>
    \A i \in DOMAIN probe.first.buildings :
      ChunkKey(<<probe.first.buildings[i].x, 0, probe.first.buildings[i].z>>)
        = probe.key

\* C17: where getRoadAt reports a road, dir is the axis of the road of the
\* reported class: for type "main", "vertical" only if the vertical main test
\* passes, and "horizontal" when only the horizontal main test passes, also
\* where a vertical street crosses; for type "street", "vertical" only if the
\* vertical street test passes.
C17_DirOfReportedClass ==
  (probe.steps >= 1 /\ probe.r.isRoad) =>
    /\ probe.r.type = "main" =>
         /\ probe.r.dir = "vertical" => probe.tests.mainX
         /\ (probe.tests.mainZ /\ ~probe.tests.mainX) => probe.r.dir = "horizontal"
    /\ probe.r.type = "street" =>
         (probe.r.dir = "vertical" => probe.tests.streetX)

\* C18: the spacing tests are periodic in the warped coordinate, negative or
\* positive: the main test agrees on w and w + MAIN_AVENUE_SPACING, the street
\* test on w and w + STREET_SPACING.
C18_SpacingTestsPeriodic ==
  probe.steps = 2 =>
    /\ probe.period.main = probe.period.mainNext
    /\ probe.period.street = probe.period.streetNext

\* C19: a frame's AI ticks change only x, z and dir of the vehicle that ticks:
\* a vehicle that does not tick keeps its position, the roads, buildings and
\* NPC spawns of a chunk that stays resident are never altered by any step,
\* and a frame without a cache update leaves the set of resident keys as it was.
C19_TickFrameEffect ==
  [][/\ \A k \in DOMAIN chunks \cap DOMAIN chunks' :
          /\ chunks'[k].roads = chunks[k].roads
          /\ chunks'[k].buildings = chunks[k].buildings
          /\ chunks'[k].npcs = chunks[k].npcs
          /\ DOMAIN chunks'[k].vehicles = DOMAIN chunks[k].vehicles
     /\ frames' = frames + 1 =>
          /\ (mode = "drive" \/ (input.x = 0 /\ input.y = 0)) =>
               DOMAIN chunks' = DOMAIN chunks
          /\ \A k \in DOMAIN chunks \cap DOMAIN chunks' :
               \A i \in DOMAIN chunks[k].vehicles :
                 IF mode = "drive" /\ chunks[k].vehicles[i].driver = "player"
                 THEN chunks'[k].vehicles[i] =
                        [chunks[k].vehicles[i] EXCEPT
                           !.speed = chunks'[k].vehicles[i].speed,
                           !.dir = chunks'[k].vehicles[i].dir]
                 ELSE chunks'[k].vehicles[i] =
                        [chunks[k].vehicles[i] EXCEPT
                           !.x = chunks'[k].vehicles[i].x,
                           !.z = chunks'[k].vehicles[i].z,
                           !.dir = chunks'[k].vehicles[i].dir]]_vars

\* a frame in drive mode has passed: the driven vehicle is where it was
\* generated and a vehicle of another chunk has been moved by its ticks
C19_Witness ==
  /\ mode = "drive"
  /\ driveFrames >= 1
  /\ activeVehicle # NoVehicle
  /\ activeVehicle[1] \in DOMAIN chunks
  /\ chunks[activeVehicle[1]].vehicles[activeVehicle[2]].x
       = Generated[activeVehicle[1]].vehicles[activeVehicle[2]].x
  /\ \E k \in DOMAIN chunks \ {activeVehicle[1]} :
       \E i \in DOMAIN chunks[k].vehicles :
         /\ chunks[k].vehicles[i].x # Generated[k].vehicles[i].x
         /\ chunks[k].vehicles[i].speed = Generated[k].vehicles[i].speed

\* C20: the dir of every vehicle of a resident chunk is "vertical" or
\* "horizontal" in every reachable state, also after entering a vehicle,
\* steering in drive mode and exiting.
C20_DirIsAnAxis ==
  \A k \in DOMAIN chunks :
    \A i \in DOMAIN chunks[k].vehicles :
      chunks[k].vehicles[i].dir \in {"vertical", "horizontal"}

\* C21: two different keys with coordinates in -WORLD_LIMIT..WORLD_LIMIT
\* get different seeds.
C21_SeedsDistinct ==
  (probe.steps = 1 /\ probe.a # probe.b) => probe.seedA # probe.seedB

\* the seeds of the keys (3, 0) and (0, 1) have been computed: they are 10 apart
C21_Witness ==
  /\ probe.steps = 1
  /\ probe.a = <<3, 0>>
  /\ probe.b = <<0, 1>>
  /\ probe.seedA = probe.seedB + 10

\* C22: for every key, (0, 0) included, the buildings of a generated chunk
\* have pairwise distinct (x, z) positions.
C22_BuildingsDistinct ==
  probe.calls >= 1 =>
    \A i \in DOMAIN probe.first.buildings :
      \A j \in DOMAIN probe.first.buildings :
        i # j => <<probe.first.buildings[i].x, probe.first.buildings[i].z>>
                   # <<probe.first.buildings[j].x, probe.first.buildings[j].z>>

\* the vehicles of resident chunks whose __driver is "player"
DrivenByPlayer ==
  UNION {{<<k, i>> : i \in {j \in DOMAIN chunks[k].vehicles :
                               chunks[k].vehicles[j].driver = "player"}} :
           k \in DOMAIN chunks}

\* C23: at most one vehicle has __driver = "player" and it is the active
\* vehicle; after exitVehicle none has.
C23_OneDrivenVehicle ==
  /\ Cardinality(DrivenByPlayer) <= 1
  /\ DrivenByPlayer \subseteq {activeVehicle}
  /\ activeVehicle = NoVehicle => DrivenByPlayer = {}

\* C24: mode is "drive" exactly when activeVehicle is not null, and "walk"
\* exactly when it is null.
C24_ModeMatchesActiveVehicle ==
  /\ mode \in {"walk", "drive"}
  /\ mode = "drive" <=> activeVehicle # NoVehicle
  /\ mode = "walk" <=> activeVehicle = NoVehicle

\* the player has entered a vehicle, spent a frame in it and left it
C24_Witness ==
  /\ mode = "walk"
  /\ activeVehicle = NoVehicle
  /\ driveFrames >= 1

\* C25: a frame in drive mode leaves x and z of every vehicle whose __driver
\* is "player" unchanged, whatever the joystick input, and leaves the player's
\* position and the set of resident chunks unchanged.
C25_DriveFrameEffect ==
  [][(frames' = frames + 1 /\ mode = "drive") =>
       /\ pos' = pos
       /\ DOMAIN chunks' = DOMAIN chunks
       /\ \A k \in DOMAIN chunks :
            \A i \in DOMAIN chunks[k].vehicles :
              chunks[k].vehicles[i].driver = "player" =>
                /\ chunks'[k].vehicles[i].x = chunks[k].vehicles[i].x
                /\ chunks'[k].vehicles[i].z = chunks[k].vehicles[i].z]_vars

\* a frame in drive mode with the stick pushed: the controls have set the
\* speed of the active vehicle
C25_Witness ==
  /\ mode = "drive"
  /\ driveFrames >= 1
  /\ input.y # 0
  /\ activeVehicle # NoVehicle
  /\ activeVehicle[1] \in DOMAIN chunks
  /\ Abs(chunks[activeVehicle[1]].vehicles[activeVehicle[2]].speed) = DRIVE_SPEED

\* C26: after every AI tick the x and z of every vehicle are within
\* WORLD_LIMIT * CHUNK_SIZE of the origin.
C26_VehiclesWithinWorld ==
  probe.ticks >= 1 =>
    \A i \in DOMAIN probe.chunk.vehicles :
      /\ Abs(probe.chunk.vehicles[i].x) <= WORLD_LIMIT * CHUNK_SIZE * PosScale
      /\ Abs(probe.chunk.vehicles[i].z) <= WORLD_LIMIT * CHUNK_SIZE * PosScale

\* C27: every vehicle generateChunk(cx, cz) creates is inside the footprint
\* of its chunk: |x - cx * CHUNK_SIZE| <= CHUNK_SIZE / 2 and the same for z.
C27_VehiclesInOwnFootprint ==
  probe.calls >= 1 =>
    \A i \in DOMAIN probe.first.vehicles :
      /\ Abs(probe.first.vehicles[i].x - probe.key[1] * CHUNK_SIZE * PosScale)
           <= half * PosScale
      /\ Abs(probe.first.vehicles[i].z - probe.key[2] * CHUNK_SIZE * PosScale)
           <= half * PosScale

\* what a purchase at the given cost does to the balance: nothing when the
\* balance is below the cost, the cost taken off otherwise
Paid(cost) ==
  probe'.tokens = IF probe.tokens < cost THEN probe.tokens ELSE probe.tokens - cost

C29_DeliveryMission ==
  /\ [](/\ probe.isCarrying => probe.missionState.active
        /\ ~(probe.spawnParcel /\ probe.isCarrying)
        /\ probe.spawnParcel => probe.missionState.active
        /\ probe.rewards <= probe.pickups
        /\ probe.rewards <= probe.starts)
  /\ [][/\ probe'.tokens > probe.tokens =>
             /\ probe'.tokens = probe.tokens + 50
             /\ probe'.rewards = probe.rewards + 1
             /\ probe.interactionTarget = "elder"
             /\ probe.missionState.active /\ probe.isCarrying
             /\ ~probe'.missionState.active /\ ~probe'.isCarrying
        /\ probe'.rewards # probe.rewards => probe'.tokens = probe.tokens + 50
        /\ (probe'.isCarrying /\ ~probe.isCarrying) =>
             /\ probe.interactionTarget = "parcel_spawn"
             /\ probe.spawnParcel
             /\ probe'.pickups = probe.pickups + 1
        /\ (probe'.spawnParcel /\ ~probe.spawnParcel) =>
             /\ probe.interactionTarget = "elder"
             /\ ~probe.missionState.active
             /\ probe'.missionState.active
             /\ probe'.starts = probe.starts + 1]_vars

\* the Elder has paid the second delivery; the parcel of the first was
\* grabbed twice
C29_Witness ==
  /\ probe.variant = "odyssey"
  /\ probe.rewards = 2 /\ probe.starts = 2 /\ probe.pickups = 3
  /\ probe.tokens = 110
  /\ probe.dialogue = "Elder: Wonderful!"
  /\ ~probe.isCarrying /\ ~probe.missionState.active

\* C30: whenever the puzzle overlay comes up, also after a Cancel in the
\* middle of an attempt, the input sequence is empty, and the fourth colour
\* click after that awards 100 tokens and closes the overlay exactly when
\* the four clicks were red, green, blue, red.
C30_FirstFourClicksDecide ==
  /\ [][(probe'.showPuzzle /\ ~probe.showPuzzle) => probe'.puzzleInput = <<>>]_vars
  /\ [][(probe.showPuzzle /\ probe.since = 3 /\ probe'.since = 4) =>
          ((probe'.tokens = probe.tokens + 100 /\ ~probe'.showPuzzle) <=> probe'.asked)]_vars

====
